---- MODULE Spec2Model ----
(***************************************************************************)
(* A model of the SPECTRA fleet core (tgarchive):                          *)
(*   - ParallelTaskScheduler.execute_parallel  (discovery.py)              *)
(*   - AccountRotator                          (discovery.py)              *)
(*   - AttachmentForwarder                     (forwarding.py)             *)
(*   - SpectraCrawlerManager.discover_from_seed (discovery.py)             *)
(* Each component has its own specification (SpecSched, SpecRot, SpecFwd,  *)
(* SpecDisc); the variables of the other components stay at their initial  *)
(* value in it.                                                            *)
(***************************************************************************)
EXTENDS Integers, Sequences, FiniteSets, TLC

\* ------------------------------------------------------------------ bounds
MaxTargets == 2
MaxAccounts == 2
MaxTime == 1
\* AccountRotator: the latest hour, the largest usage count and database counter
MaxNow == 1
MaxUsage == 2
MaxCount == 1
\* AttachmentForwarder: the longest origin channel, the number of forward_messages calls
MaxMsgs == 2
MaxPasses == 2
\* discover_from_seed: the largest depth argument
MaxDepth == 2
\* parallel_discovery: the largest depth argument
MaxPDepth == 2
\* forward_all_accessible_channels: the most rows the access table yields
MaxChannels == 2
\* join requests followed within one join_group call
MaxAttempts == 3
\* calls of populate_account_channel_access
MaxRuns == 2
\* dialogs iter_dialogs yields for one account in one call
MaxDialogs == 2
\* rows of the checkpoints table
MaxCheckpoints == 3
MaxTopN == 2
MaxPriority == 2
MaxCalls == 3

\* PAGE is called with a rank of 0 .. MaxRank and a page size of 1 .. MaxSize
MaxRank == 40
MaxSize == 4

\* the bits of a float's mantissa (53 in CPython), scaled down so that the
\* ranks above 2^MantissaBits are within MaxRank
MantissaBits == 4

\* process_channels: the largest max_depth, and the flood waits of a run
MaxCrawlDepth == 1
MaxFloods == 1

\* ------------------------------------------------------- values and nulls
\* float('inf'): the usage count of an unusable account
INF == 1000
\* SQL NULL in an integer / timestamp column, Python None for an int
NULL == -1
\* Python None where the other values are small integers (an argument not given)
None == -1
\* get_next_account does not return: its while loop never ends
Hang == -2

Targets == {"t1", "t2"}
Accounts == 0 .. (MaxAccounts - 1)

SeqsUpTo(S, n) == UNION {[1 .. k -> S] : k \in 0 .. n}

Min(a, b) == IF a < b THEN a ELSE b
Max(a, b) == IF a > b THEN a ELSE b

\* list(self.clients.keys()): the connected accounts in registration order
RECURSIVE KeysInOrder(_, _)
KeysInOrder(conn, i) ==
    IF i >= MaxAccounts THEN <<>>
    ELSE (IF i \in conn THEN <<i>> ELSE <<>>) \o KeysInOrder(conn, i + 1)

Range(s) == {s[i] : i \in DOMAIN s}

VARIABLES
    \* ParallelTaskScheduler
    pc,                  \* position of execute_parallel
    targets,             \* the targets argument
    clients,             \* self.clients: the sessions init_clients connected
    max_concurrent_arg,  \* the max_concurrent argument of execute_parallel
    max_workers,         \* self.max_workers
    max_concurrent,      \* the local max_concurrent, once resolved
    db_path,             \* whether a database path is configured
    pending_targets,     \* positions of targets not yet started
    running_tasks,       \* task -> (target, session, task_id)
    available_sessions,
    results,
    parallel_tasks,      \* table parallel_tasks: task_id -> row
    clock,               \* int(time.time()) when it was last read
    task_state,          \* per position: "new", "running" or how task_fn ended
    done,                \* the done set asyncio.wait returned, still to process
    starting,            \* the task whose start row is saved but not yet created
    launches,            \* per position: number of asyncio.create_task calls
    \* AccountRotator
    rotation_mode,
    usage_counts,
    last_used,
    iterator,            \* the index itertools.cycle yields next
    current_index,
    account_rotation,    \* table account_rotation: idx -> row
    now,                 \* datetime.now(TZ), in hours
    cooldown_deadline,   \* per account: now + cooldown_hours of the last mark_account_failed
    returned,            \* what get_next_account returned, when it was the last call
    had_available,       \* whether that call found a usable account
    \* AttachmentForwarder
    fwd_pc,              \* position of forward_messages
    enable_deduplication,
    fwd_db,              \* whether self.db is set
    secondary_unique_destination,   \* whether one is configured
    origin,              \* the messages iter_messages yields, in that order
    msg_pos,             \* the position of the message processed next
    forwarded_messages,  \* table forwarded_messages: hash -> row
    message_hashes,      \* the in-memory cache of hashes
    primary_sent,        \* how often the primary destination received each message
                         \* (0, 1, or 2 for more than once)
    secondary_sent,      \* the messages the secondary destination received
    last_outcome,        \* what became of the message processed last
    last_sent,           \* the position of the message this call sent to primary last
    passes,              \* number of forward_messages calls that ended
    \* SpectraCrawlerManager.discover_from_seed
    disc_pc,             \* position of discover_from_seed
    mentions,            \* entity -> the links its messages hold
    depth,               \* the depth argument
    current_depth,
    current_seeds,
    to_visit,            \* the part of current_seeds the inner loop has not reached
    next_seeds,
    visited,
    all_discovered,
    discovered_groups,   \* table discovered_groups: the links persisted
    extract_failed,      \* whether an extraction has failed
    iterated,            \* entity -> how often its messages were iterated (2: more than once)
    \* ParallelTaskScheduler.parallel_discovery
    pd_pc,               \* position of parallel_discovery and of the execute_parallel it awaits
    pd_phase,            \* the call awaited: "join" (parallel_join) or "discovery"
    pd_depth,            \* the depth argument
    pd_layer,            \* 0 for the seeds, then current_depth
    pd_clients,          \* the number of connected accounts
    pd_pending,          \* pending_targets of the call awaited
    pd_running,          \* running_tasks of the call awaited
    pd_results,          \* results of the call awaited
    pd_valid_seeds,      \* valid_seeds / valid_next_seeds: seed -> entity id
    pd_all_discovered,   \* all_discovered: seed -> the result of its extraction task
    \* AttachmentForwarder.forward_all_accessible_channels
    fa_pc,               \* position of forward_all_accessible_channels
    fa_db,               \* whether self.db is set
    fa_client,           \* whether self._client holds a connected client
    unique_channels_with_accounts,   \* the (channel, account) pairs read
    fa_pos,              \* the pair the loop is at
    fa_calls,            \* pair -> the number of forward_messages calls made for it
    fa_report,           \* pair -> how its forward_messages call ended
    \* AttachmentForwarder._compute_message_hash on two messages
    hash_pc,
    hash_msgs,           \* the two messages: text, media, id, date
    hash_order,          \* the order in which the parts of the second are collected
    hash_parts,          \* the content_parts of the two messages
    hash_values,         \* the two hashes
    \* GroupManager.join_group
    join_pc,             \* position of join_group
    rotate_policy,       \* config account_rotation_policy
    target_link,         \* the kind of link of the call: "username" or "invite"
    active_client,       \* the account whose client is self.active_client
    join_attempts,       \* join requests the call has sent
    flood_retries,       \* how many of them followed a FloodWaitError
    join_last,           \* the account and the answer of the request sent last
    fatal_reported,      \* accounts that answered with an account-fatal error
    \* cancellation of the task that runs execute_parallel
    cancel_requested,    \* whether Task.cancel() was called on it
    \* populate_account_channel_access
    idx_pc,              \* position of populate_account_channel_access
    idx_runs,            \* the calls made so far
    idx_account,         \* the position in config.accounts the loop is at
    idx_dialogs,         \* the dialogs iter_dialogs has yielded for this account
    idx_now,             \* datetime.now(timezone.utc)
    account_channel_access,   \* table account_channel_access: the rows
    idx_latest,          \* (account, channel) -> the values upserted last for it
    \* DB: one mutating operation
    st_pc,               \* "idle", "trying", "returned" or "raised"
    st_op,               \* the operation called
    st_tries,            \* how each attempt of the call ended
    st_waits,            \* the time.sleep calls of the call, in seconds
    \* DB: checkpoints
    checkpoints,         \* table checkpoints: the rows in insertion (id) order
    utcnow,              \* datetime.utcnow()
    latest_context,      \* the context get_latest_checkpoint was last asked for
    latest_result,       \* what it returned
    \* DB: messages
    msg_pc,              \* "new", "inserted" or "read"
    db_tz,               \* self.tz as a UTC offset in hours, or None
    msg_in,              \* the Message given to insert_message
    messages,            \* table messages: id -> row
    msg_out,             \* the Messages get_messages yielded
    \* CloudProcessor: invitations
    inv_pc,              \* "crawl", "process" or "finished"
    inv_runs,            \* how many CloudProcessor objects were constructed
    auto_invite,         \* cloud.auto_invite_accounts of the config
    selected_account,    \* session_name of self.selected_account
    invite_queue,        \* self.invite_queue: <<channel id, session_name>> items
    items_to_process,    \* the copy of the queue a pass iterates, the rest of it
    processed_invites,   \* self.processed_invites
    invitation_state_file, \* invitation_state.json
    join_requested,      \* the keys JoinChannelRequest was sent for in this step
    invite_delays,       \* self.invite_delays: min_seconds and max_seconds
    invite_flood,        \* e_flood.seconds when the last item ended with a flood wait, else 0
    \* SpectraCrawlerManager: priority targets
    prio_pc,             \* "ready", "returned" (get_priority_targets) or "archived"
    prio_calls,          \* how many calls were made
    has_db,              \* self.db_path is set
    priority,            \* discovered_groups.priority (metrics['combined'] without a db)
    status,              \* discovered_groups.status
    prio_args,           \* top_n and min_priority of the last get_priority_targets
    prio_result,         \* the links it returned, in order
    archived_ok,         \* the links batch_join_archive has archived with success
    \* SpectraCrawlerManager: priority update
    rank_pc,             \* "ready", "updated" or "failed"
    rank_rows,           \* the group_link values of table discovered_groups
    group_relationships, \* table group_relationships: <<source, target>> rows
    rank_priority,       \* discovered_groups.priority, in units of 1 / Scale
    \* DB: the SQL function PAGE
    page_pc,             \* "ready" or "returned"
    page_n,              \* first argument of PAGE: the rank of a message
    page_multiple,       \* second argument of PAGE: the page size
    page_result,         \* what PAGE returned
    \* AccountRotator: the accounts list
    session_name,        \* accounts[idx]['session_name'] of every index
    \* AccountRotator: the history of its calls
    window,              \* the last get_next_account calls since the last failure report
    reported,            \* the accounts mark_account_failed has made unusable
    \* AttachmentForwarder.forward_messages: the clients it uses
    sv_pc,               \* "start", "primary", "saved", "restore" or "done"
    sv_accounts,         \* config.accounts: the session names, in order
    sv_account,          \* account_identifier: the account that forwards
    sv_prepend,          \* prepend_origin_info and not destination_topic_id
    sv_ext,              \* session.filename carries an extension the path compared with lacks
    sv_secondary_cfg,    \* secondary_unique_destination is configured
    sv_all_saved,        \* forward_to_all_saved_messages
    sv_msg,              \* the message the loop is at
    sv_acc_pos,          \* the position of "for acc_config in self.config.accounts"
    sv_client,           \* the local variable client: the object it refers to
    sv_self,             \* self._client: "none", "local" (the object of client) or "other"
    sv_other,            \* the object self._client refers to when it is not the local one
    sv_leaked,           \* the accounts of connected clients nothing refers to any more
    sv_primary,          \* how the primary forward of each message ended
    sv_attempts,         \* the primary forwards issued for each message
    sv_via,              \* the client each primary forward was issued through
    sv_recorded,         \* the messages _record_forwarded was called for
    sv_secondary,        \* the messages forwarded to the secondary destination
    sv_saved,            \* <<message, account>>: forwarded to the account's Saved Messages
    sv_seconds,          \* e_flood.seconds of the last flood-wait of a primary forward
    sv_slept,            \* the seconds slept since the last message was taken
    \* CloudProcessor.process_channels
    cl_pc,               \* "start", "loop" or "done"
    max_depth,           \* self.max_depth
    initial_channels,    \* the lines of the channels file
    channels_to_visit,   \* the deque of <<channel_identifier, depth>>
    visited_channels,    \* the set of identifiers taken from the deque
    cl_floods,           \* the flood waits get_entity has answered with
    cl_taken,            \* <<identifier, depth>>: taken from the deque
    cl_resolved,         \* <<identifier, depth>>: get_entity was called for it
    cl_extracted,        \* <<identifier, depth>>: its messages were scanned for links
    cl_processed,        \* how many times each identifier was resolved and processed
    cl_flooded           \* the identifiers put back after a flood wait

schedVars == <<pc, targets, clients, max_concurrent_arg,
               max_workers, max_concurrent, db_path,
               pending_targets, running_tasks, available_sessions, results,
               parallel_tasks, clock, task_state, done, starting, launches>>
rotVars == <<rotation_mode, usage_counts, last_used, iterator, current_index,
             account_rotation, now, cooldown_deadline, returned, had_available>>
fwdVars == <<fwd_pc, enable_deduplication, fwd_db, secondary_unique_destination,
             origin, msg_pos, forwarded_messages, message_hashes, primary_sent,
             secondary_sent, last_outcome, last_sent, passes>>
discVars == <<disc_pc, mentions, depth, current_depth, current_seeds, to_visit,
              next_seeds, visited, all_discovered, discovered_groups, extract_failed,
              iterated>>
pdVars == <<pd_pc, pd_phase, pd_depth, pd_layer, pd_clients, pd_pending, pd_running,
            pd_results, pd_valid_seeds, pd_all_discovered>>
faVars == <<fa_pc, fa_db, fa_client, unique_channels_with_accounts, fa_pos, fa_calls,
            fa_report>>
hashVars == <<hash_pc, hash_msgs, hash_order, hash_parts, hash_values>>
joinVars == <<join_pc, rotate_policy, target_link, active_client, join_attempts,
              flood_retries, join_last, fatal_reported>>
cancelVars == <<cancel_requested>>
idxVars == <<idx_pc, idx_runs, idx_account, idx_dialogs, idx_now,
             account_channel_access, idx_latest>>
storeVars == <<st_pc, st_op, st_tries, st_waits>>
ckptVars == <<checkpoints, utcnow, latest_context, latest_result>>
msgVars == <<msg_pc, db_tz, msg_in, messages, msg_out>>
invVars == <<inv_pc, inv_runs, auto_invite, selected_account, invite_queue,
             items_to_process, processed_invites, invitation_state_file,
             join_requested, invite_delays, invite_flood>>
prioVars == <<prio_pc, prio_calls, has_db, priority, status, prio_args, prio_result,
              archived_ok>>
rankVars == <<rank_pc, rank_rows, group_relationships, rank_priority>>
pageVars == <<page_pc, page_n, page_multiple, page_result>>
nameVars == <<session_name>>
cycleVars == <<window, reported>>
savedVars == <<sv_pc, sv_accounts, sv_account, sv_prepend, sv_ext, sv_secondary_cfg,
               sv_all_saved, sv_msg, sv_acc_pos, sv_client, sv_self, sv_other, sv_leaked,
               sv_primary, sv_attempts, sv_via, sv_recorded, sv_secondary, sv_saved,
               sv_seconds, sv_slept>>
cloudVars == <<cl_pc, max_depth, initial_channels, channels_to_visit, visited_channels,
               cl_floods, cl_taken, cl_resolved, cl_extracted, cl_processed, cl_flooded>>
vars == <<schedVars, rotVars, fwdVars, discVars, pdVars, faVars, hashVars, joinVars, cancelVars, idxVars, storeVars, ckptVars, msgVars, invVars, prioVars, rankVars, pageVars, nameVars, cycleVars, savedVars, cloudVars>>

\* the entities of the link graph, the seed and the name join_group returns for it
Entities == {"a", "b", "c"}
SeedEntity == "a"
SeedEntityId == "id:a"

\* invitation_state.json: absent, or present with a JSON list of keys, or
\* present with text that is not JSON (a write that ended midway)
NoFile == [exists |-> FALSE, json |-> FALSE, keys |-> {}]
JsonFile(keys) == [exists |-> TRUE, json |-> TRUE, keys |-> keys]
BrokenFile == [exists |-> TRUE, json |-> FALSE, keys |-> {}]

\* PAGE is not being called
PageIdle ==
    /\ page_pc = "idle"
    /\ page_n = 0
    /\ page_multiple = 1
    /\ page_result = NULL

\* the session names an accounts list can hold, in lexicographic order
SessionNames == <<"alpha", "beta", "gamma", "delta_">>

\* the accounts are registered in the lexicographic order of their names
NameIdle == session_name = [a \in Accounts |-> SessionNames[a + 1]]

\* no history of the rotator's calls is kept
CycleIdle ==
    /\ window = <<>>
    /\ reported = {}

\* no TelegramClient object
NoClient == [account |-> "", connected |-> FALSE]

\* forward_messages with its clients is not being followed
SavedIdle ==
    /\ sv_pc = "off"
    /\ sv_accounts = <<>>
    /\ sv_account = ""
    /\ sv_prepend = FALSE
    /\ sv_ext = FALSE
    /\ sv_secondary_cfg = FALSE
    /\ sv_all_saved = FALSE
    /\ sv_msg = 0
    /\ sv_acc_pos = 0
    /\ sv_client = NoClient
    /\ sv_self = "none"
    /\ sv_other = NoClient
    /\ sv_leaked = {}
    /\ sv_primary = <<>>
    /\ sv_attempts = <<>>
    /\ sv_via = <<>>
    /\ sv_recorded = {}
    /\ sv_secondary = {}
    /\ sv_saved = {}
    /\ sv_seconds = 0
    /\ sv_slept = 0

\* process_channels is not running
CloudIdle ==
    /\ cl_pc = "off"
    /\ max_depth = 0
    /\ initial_channels = <<>>
    /\ channels_to_visit = <<>>
    /\ visited_channels = {}
    /\ cl_floods = 0
    /\ cl_taken = {}
    /\ cl_resolved = {}
    /\ cl_extracted = {}
    /\ cl_processed = <<>>
    /\ cl_flooded = {}

\* no priority is being computed
RankIdle ==
    /\ rank_pc = "off"
    /\ rank_rows = {}
    /\ group_relationships = {}
    /\ rank_priority = <<>>

\* no SpectraCrawlerManager exists
PrioIdle ==
    /\ prio_pc = "off"
    /\ prio_calls = 0
    /\ has_db = FALSE
    /\ priority = <<>>
    /\ status = <<>>
    /\ prio_args = <<>>
    /\ prio_result = <<>>
    /\ archived_ok = {}

\* no CloudProcessor exists
InvIdle ==
    /\ inv_pc = "off"
    /\ inv_runs = 0
    /\ auto_invite = FALSE
    /\ selected_account = ""
    /\ invite_queue = <<>>
    /\ items_to_process = <<>>
    /\ processed_invites = {}
    /\ invitation_state_file = NoFile
    /\ join_requested = {}
    /\ invite_delays = [min_seconds |-> 120, max_seconds |-> 600]
    /\ invite_flood = 0

\* no message is stored
MsgIdle ==
    /\ msg_pc = "off"
    /\ db_tz = None
    /\ msg_in = <<>>
    /\ messages = <<>>
    /\ msg_out = <<>>

\* no checkpoint is in use
CkptIdle ==
    /\ checkpoints = <<>>
    /\ utcnow = 0
    /\ latest_context = "off"
    /\ latest_result = None

\* no store operation is running
StoreIdle ==
    /\ st_pc = "off"
    /\ st_op = "none"
    /\ st_tries = <<>>
    /\ st_waits = <<>>

\* populate_account_channel_access is not running
IdxIdle ==
    /\ idx_pc = "off"
    /\ idx_runs = 0
    /\ idx_account = 0
    /\ idx_dialogs = 0
    /\ idx_now = 0
    /\ account_channel_access = {}
    /\ idx_latest = [p \in {} |-> 0]

\* nobody cancels execute_parallel
CancelIdle == cancel_requested = FALSE

\* join_group is not running
JoinIdle ==
    /\ join_pc = "off"
    /\ rotate_policy = "per_operation"
    /\ target_link = "username"
    /\ active_client = None
    /\ join_attempts = 0
    /\ flood_retries = 0
    /\ join_last = [account |-> None, answer |-> "none"]
    /\ fatal_reported = {}

\* no hash is being compared
HashIdle ==
    /\ hash_pc = "off"
    /\ hash_msgs = <<>>
    /\ hash_order = <<>>
    /\ hash_parts = <<>>
    /\ hash_values = <<>>

\* forward_all_accessible_channels is not running
FAIdle ==
    /\ fa_pc = "off"
    /\ fa_db = FALSE
    /\ fa_client = FALSE
    /\ unique_channels_with_accounts = <<>>
    /\ fa_pos = 0
    /\ fa_calls = <<>>
    /\ fa_report = <<>>

\* parallel_discovery is not running
PDIdle ==
    /\ pd_pc = "off"
    /\ pd_phase = "none"
    /\ pd_depth = 0
    /\ pd_layer = 0
    /\ pd_clients = 0
    /\ pd_pending = <<>>
    /\ pd_running = {}
    /\ pd_results = [t \in {} |-> 0]
    /\ pd_valid_seeds = [t \in {} |-> 0]
    /\ pd_all_discovered = [t \in {} |-> 0]

\* no discovery is running
DiscIdle ==
    /\ disc_pc = "off"
    /\ mentions = [e \in Entities |-> {}]
    /\ depth = 0
    /\ current_depth = 0
    /\ current_seeds = {}
    /\ to_visit = {}
    /\ next_seeds = {}
    /\ visited = {}
    /\ all_discovered = {}
    /\ discovered_groups = {}
    /\ extract_failed = FALSE
    /\ iterated = [e \in Entities |-> 0]

\* no AttachmentForwarder is in use
FwdIdle ==
    /\ fwd_pc = "off"
    /\ enable_deduplication = FALSE
    /\ fwd_db = FALSE
    /\ secondary_unique_destination = FALSE
    /\ origin = <<>>
    /\ msg_pos = 0
    /\ forwarded_messages = [h \in {} |-> 0]
    /\ message_hashes = {}
    /\ primary_sent = <<>>
    /\ secondary_sent = {}
    /\ last_outcome = "none"
    /\ last_sent = 0
    /\ passes = 0


\* ============================================================ AccountRotator

NewAccountRow ==
    [usage_count |-> 0, last_used |-> 0, last_error |-> "NULL",
     cooldown_until |-> NULL, is_banned |-> FALSE,
     flood_wait_count |-> 0, success_count |-> 0]

\* mark_account_failed: the in-memory part
MarkFailedUsage(uc, idx) == [uc EXCEPT ![idx] = INF]

\* mark_account_failed: the UPDATE of account_rotation. With cooldown_hours
\* given, datetime.timedelta raises AttributeError (datetime is the class
\* datetime.datetime) inside the try block: the UPDATE is never executed.
MarkFailedRows(rows, idx, error, cooldown_hours) ==
    IF ~db_path THEN rows
    ELSE IF cooldown_hours # None /\ cooldown_hours # 0 THEN rows
    ELSE [rows EXCEPT ![idx] =
            [@ EXCEPT !.last_error = error,
                      !.cooldown_until = NULL,
                      !.flood_wait_count = @ + 1]]

\* the deadline mark_account_failed was asked to set (now + cooldown_hours)
MarkFailedDeadline(cd, idx, cooldown_hours) ==
    IF cooldown_hours # None /\ cooldown_hours # 0
    THEN [cd EXCEPT ![idx] = now + cooldown_hours]
    ELSE cd

\* mark_account_success
MarkSuccessRows(rows, idx) ==
    IF ~db_path THEN rows
    ELSE [rows EXCEPT ![idx] = [@ EXCEPT !.success_count = @ + 1]]

\* available_idx: the accounts whose usage count is below float('inf')
AvailableIdx(uc) == {a \in Accounts : uc[a] < INF}

\* min(available_idx, key=usage_counts): the first minimum in index order
WeightedSelect(uc) ==
    CHOOSE a \in AvailableIdx(uc) :
        \A b \in AvailableIdx(uc) : uc[a] < uc[b] \/ (uc[a] = uc[b] /\ a <= b)

\* scores[idx] = time_factor * 0.7 + usage_factor * 0.3, as the fraction
\* ScoreNum / ScoreDen with time_factor = hours since last use and
\* usage_factor = 1 / (usage_counts[idx] + 1)
ScoreNum(uc, lu, a) == 7 * (now - lu[a]) * (uc[a] + 1) + 3
ScoreDen(uc, a) == 10 * (uc[a] + 1)
ScoreLess(uc, lu, a, b) ==
    ScoreNum(uc, lu, a) * ScoreDen(uc, b) < ScoreNum(uc, lu, b) * ScoreDen(uc, a)

\* max(scores, key=scores.get): the first maximum in index order
SmartSelect(uc, lu) ==
    CHOOSE a \in AvailableIdx(uc) :
        \A b \in AvailableIdx(uc) :
            ScoreLess(uc, lu, b, a) \/ (~ScoreLess(uc, lu, a, b) /\ a <= b)

\* next(self._iterator) until an account with a finite usage count comes up
\* (called only when there is one: the loop does not end otherwise)
RECURSIVE SequentialSelect(_, _)
SequentialSelect(uc, it) ==
    IF uc[it] = INF THEN SequentialSelect(uc, (it + 1) % MaxAccounts) ELSE it

\* the accounts get_next_account can select under a rotation mode
Selected(mode, uc, lu, it) ==
    CASE mode = "random" -> AvailableIdx(uc)
      [] mode = "weighted" -> {WeightedSelect(uc)}
      [] mode = "smart" -> {SmartSelect(uc, lu)}
      [] OTHER -> {SequentialSelect(uc, it)}

\* _save_account_stats
SaveAccountStats(rows, idx, uc, lu) ==
    IF ~db_path THEN rows
    ELSE [rows EXCEPT ![idx] = [@ EXCEPT !.usage_count = uc[idx], !.last_used = lu[idx]]]

\* reset_usage_counts: the in-memory part
ResetUsage(uc) == [a \in Accounts |-> IF uc[a] # INF THEN 0 ELSE uc[a]]

\* reset_usage_counts: UPDATE account_rotation SET usage_count = 0 WHERE is_banned = 0
ResetRows(rows) ==
    IF ~db_path THEN rows
    ELSE [a \in Accounts |->
            IF rows[a].is_banned THEN rows[a] ELSE [rows[a] EXCEPT !.usage_count = 0]]

\* ===================================================== ParallelTaskScheduler

TaskType == "join"

NullRow ==
    [task_type |-> "NULL", target |-> "NULL", session_name |-> NULL,
     started_at |-> NULL, completed_at |-> NULL, success |-> "NULL",
     error |-> "NULL", result |-> "NULL"]

\* f"{task_type}_{target}_{int(time.time())}"
TaskId(target, t) == <<TaskType, target, t>>

\* _save_task: INSERT OR REPLACE of the columns task_data names; every other
\* column of the row gets its default, NULL
save_task(rows, task_id, task_data) ==
    IF ~db_path THEN rows
    ELSE [id \in (DOMAIN rows) \cup {task_id} |->
            IF id = task_id
            THEN [f \in DOMAIN NullRow |->
                    IF f \in DOMAIN task_data THEN task_data[f] ELSE NullRow[f]]
            ELSE rows[id]]

\* how a task_fn call can end: a value, None, an exception, a FloodWait exception
Outcomes == {"ok", "empty", "error", "flood"}
Success(o) == o \in {"ok", "empty"}
ResultOf(o) == IF o = "ok" THEN "value" ELSE "None"
ErrorOf(o) == CASE o = "error" -> "RPCError"
                [] o = "flood" -> "FloodWaitError"
                [] OTHER -> "None"
\* 1 if "FloodWait" in str(error or "") else None
CooldownOf(o) == IF o = "flood" THEN 1 ELSE None

\* the guard with the concurrency test off by one
CanStartOffByOne ==
    /\ pending_targets # <<>>
    /\ Cardinality(running_tasks) <= max_concurrent
    /\ available_sessions # <<>>

\* the guard of the inner while loop
CanStart ==
    /\ pending_targets # <<>>
    /\ Cardinality(running_tasks) < max_concurrent
    /\ available_sessions # <<>>

\* available_sessions[0] read without removing it
PopSessionKept(av) == av

\* available_sessions.pop(0): what is left
PopSession(av) == Tail(av)

SchedInit ==
    /\ pc = "idle"
    \* the targets are interchangeable: the first one is called t1
    /\ targets \in {ts \in SeqsUpTo(Targets, MaxTargets) : ts = <<>> \/ ts[1] = "t1"}
    /\ \E conn \in SUBSET Accounts : clients = KeysInOrder(conn, 0)
    /\ max_concurrent_arg \in {None} \cup (0 .. MaxAccounts)
    /\ max_workers = None
    /\ max_concurrent = None
    /\ db_path \in BOOLEAN
    /\ pending_targets = <<>>
    /\ running_tasks = {}
    /\ available_sessions = <<>>
    /\ results = [t \in {} |-> "None"]
    /\ parallel_tasks = [id \in {} |-> NullRow]
    /\ clock = 0
    /\ task_state = [i \in DOMAIN targets |-> "new"]
    /\ done = {}
    /\ starting = {}
    /\ launches = [i \in DOMAIN targets |-> 0]

\* no AccountRotator is in use
RotIdle ==
    /\ db_path = FALSE
    /\ rotation_mode = "sequential"
    /\ usage_counts = [a \in Accounts |-> 0]
    /\ last_used = [a \in Accounts |-> 0]
    /\ iterator = 0
    /\ current_index = 0
    /\ account_rotation = [a \in Accounts |-> NewAccountRow]
    /\ now = 0
    /\ cooldown_deadline = [a \in Accounts |-> NULL]
    /\ returned = None
    /\ had_available = TRUE

\* the state the rotator is in when init_clients has run: the accounts that did
\* not connect are marked failed
RotOfSched ==
    /\ rotation_mode = "sequential"
    /\ last_used = [a \in Accounts |-> 0]
    /\ iterator = 0
    /\ current_index = 0
    /\ returned = None
    /\ had_available = TRUE
    /\ usage_counts = [a \in Accounts |-> IF a \in Range(clients) THEN 0 ELSE INF]
    /\ account_rotation = [a \in Accounts |->
          IF db_path /\ a \notin Range(clients)
          THEN [NewAccountRow EXCEPT !.last_error = "Needs authorization",
                                     !.flood_wait_count = 1]
          ELSE NewAccountRow]
    /\ now = 0
    /\ cooldown_deadline = [a \in Accounts |-> NULL]

\* lines 1125-1137: initialize (no client: return {}), resolve max_concurrent,
\* prepare the lists
ExecStart ==
    /\ pc = "idle"
    /\ IF clients = <<>>
       THEN /\ pc' = "returned"
            /\ UNCHANGED <<max_workers, max_concurrent, pending_targets,
                           available_sessions>>
       ELSE /\ pc' = "schedule"
            /\ max_workers' = IF max_workers = None THEN Len(clients) ELSE max_workers
            /\ max_concurrent' = IF max_concurrent_arg = None THEN max_workers'
                                 ELSE max_concurrent_arg
            /\ pending_targets' = [i \in DOMAIN targets |-> i]
            /\ available_sessions' = clients
    /\ UNCHANGED <<targets, clients, max_concurrent_arg, db_path,
                   running_tasks, results, parallel_tasks, clock, task_state, done,
                   starting, launches>>
    /\ UNCHANGED <<rotVars, fwdVars, discVars, pdVars, faVars, hashVars, joinVars,
                   cancelVars, idxVars, storeVars, ckptVars, msgVars, invVars,
                   prioVars, rankVars, pageVars, nameVars, cycleVars, savedVars,
                   cloudVars>>

\* lines 1142-1160: pop a target and a session, save the start row
SaveStart ==
    /\ pc = "schedule"
    /\ CanStart
    /\ clock' \in clock .. MaxTime
    /\ LET i == Head(pending_targets)
           session == Head(available_sessions)
           task_id == TaskId(targets[i], clock')
       IN /\ pending_targets' = Tail(pending_targets)
          /\ available_sessions' = PopSession(available_sessions)
          /\ parallel_tasks' = save_task(parallel_tasks, task_id,
                [task_type |-> TaskType, target |-> targets[i],
                 session_name |-> session, started_at |-> clock'])
          /\ starting' = {[task |-> i, target |-> targets[i], session |-> session,
                           task_id |-> task_id]}
    /\ pc' = "create"
    /\ UNCHANGED <<targets, clients, max_concurrent_arg, max_workers,
                   max_concurrent, db_path,
                   running_tasks, results, task_state, done, launches>>
    /\ UNCHANGED <<rotVars, fwdVars, discVars, pdVars, faVars, hashVars, joinVars,
                   cancelVars, idxVars, storeVars, ckptVars, msgVars, invVars,
                   prioVars, rankVars, pageVars, nameVars, cycleVars, savedVars,
                   cloudVars>>

\* lines 1162-1165: asyncio.create_task and running_tasks[task] = ...
CreateTask ==
    /\ pc = "create"
    /\ \E st \in starting :
          /\ running_tasks' = running_tasks \cup {st}
          /\ task_state' = [task_state EXCEPT ![st.task] = "running"]
          /\ launches' = [launches EXCEPT ![st.task] = @ + 1]
    /\ starting' = {}
    /\ pc' = "schedule"
    /\ UNCHANGED <<targets, clients, max_concurrent_arg, max_workers,
                   max_concurrent, db_path,
                   pending_targets, available_sessions, results, parallel_tasks,
                   clock, done>>
    /\ UNCHANGED <<rotVars, fwdVars, discVars, pdVars, faVars, hashVars, joinVars,
                   cancelVars, idxVars, storeVars, ckptVars, msgVars, invVars,
                   prioVars, rankVars, pageVars, nameVars, cycleVars, savedVars,
                   cloudVars>>

\* lines 1167-1172: nothing runs, targets remain: asyncio.sleep(1), continue
Sleep ==
    /\ pc = "schedule"
    /\ ~CanStart
    /\ running_tasks = {}
    /\ pending_targets # <<>>
    /\ clock < MaxTime
    /\ clock' = clock + 1
    /\ UNCHANGED <<pc, targets, clients, max_concurrent_arg, max_workers,
                   max_concurrent, db_path,
                   pending_targets, running_tasks, available_sessions, results,
                   parallel_tasks, task_state, done, starting, launches>>
    /\ UNCHANGED <<rotVars, fwdVars, discVars, pdVars, faVars, hashVars, joinVars,
                   cancelVars, idxVars, storeVars, ckptVars, msgVars, invVars,
                   prioVars, rankVars, pageVars, nameVars, cycleVars, savedVars,
                   cloudVars>>

\* lines 1173-1175 and 1224: nothing runs, nothing pending: break, return results
Return ==
    /\ pc = "schedule"
    /\ ~CanStart
    /\ running_tasks = {}
    /\ pending_targets = <<>>
    /\ pc' = "returned"
    /\ UNCHANGED <<targets, clients, max_concurrent_arg, max_workers,
                   max_concurrent, db_path,
                   pending_targets, running_tasks, available_sessions, results,
                   parallel_tasks, clock, task_state, done, starting, launches>>
    /\ UNCHANGED <<rotVars, fwdVars, discVars, pdVars, faVars, hashVars, joinVars,
                   cancelVars, idxVars, storeVars, ckptVars, msgVars, invVars,
                   prioVars, rankVars, pageVars, nameVars, cycleVars, savedVars,
                   cloudVars>>

\* line 1178: execute_parallel suspends in asyncio.wait
EnterWait ==
    /\ pc = "schedule"
    /\ ~CanStart
    /\ running_tasks # {}
    /\ pc' = "wait"
    /\ UNCHANGED <<targets, clients, max_concurrent_arg, max_workers,
                   max_concurrent, db_path,
                   pending_targets, running_tasks, available_sessions, results,
                   parallel_tasks, clock, task_state, done, starting, launches>>
    /\ UNCHANGED <<rotVars, fwdVars, discVars, pdVars, faVars, hashVars, joinVars,
                   cancelVars, idxVars, storeVars, ckptVars, msgVars, invVars,
                   prioVars, rankVars, pageVars, nameVars, cycleVars, savedVars,
                   cloudVars>>

\* a task_fn call ends while execute_parallel is suspended
TaskFinish ==
    /\ pc = "wait"
    /\ \E r \in running_tasks, o \in Outcomes :
          /\ task_state[r.task] = "running"
          /\ task_state' = [task_state EXCEPT ![r.task] = o]
    /\ UNCHANGED <<pc, targets, clients, max_concurrent_arg, max_workers,
                   max_concurrent, db_path,
                   pending_targets, running_tasks, available_sessions, results,
                   parallel_tasks, clock, done, starting, launches>>
    /\ UNCHANGED <<rotVars, fwdVars, discVars, pdVars, faVars, hashVars, joinVars,
                   cancelVars, idxVars, storeVars, ckptVars, msgVars, invVars,
                   prioVars, rankVars, pageVars, nameVars, cycleVars, savedVars,
                   cloudVars>>

\* lines 1178-1182: asyncio.wait returns the tasks that are done (FIRST_COMPLETED),
\* or nothing on its timeout
WaitReturn ==
    /\ pc = "wait"
    /\ done' = {r \in running_tasks : task_state[r.task] # "running"}
    /\ pc' = "process"
    /\ UNCHANGED <<targets, clients, max_concurrent_arg, max_workers,
                   max_concurrent, db_path,
                   pending_targets, running_tasks, available_sessions, results,
                   parallel_tasks, clock, task_state, starting, launches>>
    /\ UNCHANGED <<rotVars, fwdVars, discVars, pdVars, faVars, hashVars, joinVars,
                   cancelVars, idxVars, storeVars, ckptVars, msgVars, invVars,
                   prioVars, rankVars, pageVars, nameVars, cycleVars, savedVars,
                   cloudVars>>

\* the task read without removing it from running_tasks
PopTaskKept(running, r) == running

\* running_tasks.pop(task)
PopTask(running, r) == running \ {r}

\* the result recorded only for a task that succeeded
RecordResultOnSuccess(res, target, o) ==
    IF Success(o)
    THEN [t \in (DOMAIN res) \cup {target} |-> IF t = target THEN ResultOf(o) ELSE res[t]]
    ELSE res

\* results[target] = result
RecordResult(res, target, o) ==
    [t \in (DOMAIN res) \cup {target} |-> IF t = target THEN ResultOf(o) ELSE res[t]]

\* lines 1185-1222: one iteration of "for task in done"
ProcessDone ==
    /\ pc = "process"
    /\ clock' \in clock .. MaxTime
    /\ \E r \in done :
          LET o == task_state[r.task]
              account_idx == r.session
          IN /\ running_tasks' = PopTask(running_tasks, r)
             /\ available_sessions' = Append(available_sessions, r.session)
             /\ results' = RecordResult(results, r.target, o)
             /\ parallel_tasks' = save_task(parallel_tasks, r.task_id,
                   [completed_at |-> clock',
                    success |-> IF Success(o) THEN "true" ELSE "false",
                    error |-> ErrorOf(o), result |-> ResultOf(o)])
             /\ IF Success(o)
                THEN /\ account_rotation' = MarkSuccessRows(account_rotation, account_idx)
                     /\ UNCHANGED <<usage_counts, cooldown_deadline>>
                ELSE /\ usage_counts' = MarkFailedUsage(usage_counts, account_idx)
                     /\ account_rotation' = MarkFailedRows(account_rotation, account_idx,
                                                           ErrorOf(o), CooldownOf(o))
                     /\ cooldown_deadline' = MarkFailedDeadline(cooldown_deadline,
                                                                account_idx, CooldownOf(o))
             /\ done' = done \ {r}
    /\ UNCHANGED <<pc, targets, clients, max_concurrent_arg, max_workers,
                   max_concurrent, db_path,
                   pending_targets, task_state, starting, launches>>
    /\ UNCHANGED <<rotation_mode, last_used, iterator, current_index, now,
                   returned, had_available>>
    /\ UNCHANGED <<fwdVars, discVars, pdVars, faVars, hashVars, joinVars, cancelVars,
                   idxVars, storeVars, ckptVars, msgVars, invVars, prioVars, rankVars,
                   pageVars, nameVars, cycleVars, savedVars, cloudVars>>

\* the for loop over done has ended: back to the top of the outer while
LoopBack ==
    /\ pc = "process"
    /\ done = {}
    /\ pc' = "schedule"
    /\ UNCHANGED <<targets, clients, max_concurrent_arg, max_workers,
                   max_concurrent, db_path,
                   pending_targets, running_tasks, available_sessions, results,
                   parallel_tasks, clock, task_state, done, starting, launches>>
    /\ UNCHANGED <<rotVars, fwdVars, discVars, pdVars, faVars, hashVars, joinVars,
                   cancelVars, idxVars, storeVars, ckptVars, msgVars, invVars,
                   prioVars, rankVars, pageVars, nameVars, cycleVars, savedVars,
                   cloudVars>>

NextSched ==
    \/ ExecStart
    \/ SaveStart
    \/ CreateTask
    \/ Sleep
    \/ Return
    \/ EnterWait
    \/ TaskFinish
    \/ WaitReturn
    \/ ProcessDone
    \/ LoopBack

InitSched == SchedInit /\ RotOfSched /\ FwdIdle /\ DiscIdle /\ PDIdle /\ FAIdle /\ HashIdle /\ JoinIdle /\ CancelIdle /\ IdxIdle /\ StoreIdle /\ CkptIdle /\ MsgIdle /\ InvIdle /\ PrioIdle /\ RankIdle /\ PageIdle /\ NameIdle /\ CycleIdle /\ SavedIdle /\ CloudIdle

SpecSched == InitSched /\ [][NextSched]_vars

\* execute_parallel is a coroutine the event loop resumes whenever it can take
\* a step, and every task_fn call comes to an end (it can end only while
\* execute_parallel is suspended in asyncio.wait, which it enters again and
\* again as long as a task runs)
SpecSchedLive == InitSched /\ [][NextSched]_vars /\ WF_vars(NextSched) /\ SF_vars(TaskFinish)

\* ------------------------------------------- execute_parallel, cancelled

\* Task.cancel() on the task that runs execute_parallel while it is suspended in
\* asyncio.wait: CancelledError is raised at line 1178, no handler catches it,
\* and execute_parallel ends at once. asyncio.wait leaves the tasks it was
\* waiting for running.
Cancel ==
    /\ pc = "wait"
    /\ ~cancel_requested
    /\ cancel_requested' = TRUE
    /\ pc' = "cancelled"
    /\ UNCHANGED <<targets, clients, max_concurrent_arg, max_workers,
                   max_concurrent, db_path,
                   pending_targets, running_tasks, available_sessions, results,
                   parallel_tasks, clock, task_state, done, starting, launches>>
    /\ UNCHANGED <<rotVars, fwdVars, discVars, pdVars, faVars, hashVars, joinVars,
                   idxVars, storeVars, ckptVars, msgVars, invVars, prioVars, rankVars,
                   pageVars, nameVars, cycleVars, savedVars, cloudVars>>

\* a task_fn call ends after execute_parallel was cancelled
OrphanFinish ==
    /\ pc = "cancelled"
    /\ \E r \in running_tasks, o \in Outcomes :
          /\ task_state[r.task] = "running"
          /\ task_state' = [task_state EXCEPT ![r.task] = o]
    /\ UNCHANGED <<pc, targets, clients, max_concurrent_arg, max_workers,
                   max_concurrent, db_path,
                   pending_targets, running_tasks, available_sessions, results,
                   parallel_tasks, clock, done, starting, launches>>
    /\ UNCHANGED <<rotVars, fwdVars, discVars, pdVars, faVars, hashVars, joinVars,
                   cancelVars, idxVars, storeVars, ckptVars, msgVars, invVars,
                   prioVars, rankVars, pageVars, nameVars, cycleVars, savedVars,
                   cloudVars>>

NextCancel ==
    \/ ExecStart
    \/ SaveStart
    \/ CreateTask
    \/ Sleep
    \/ Return
    \/ EnterWait
    \/ TaskFinish
    \/ WaitReturn
    \/ ProcessDone
    \/ LoopBack
    \/ Cancel
    \/ OrphanFinish

InitCancel == SchedInit /\ RotOfSched /\ FwdIdle /\ DiscIdle /\ PDIdle /\ FAIdle /\ HashIdle /\ JoinIdle /\ CancelIdle /\ IdxIdle /\ StoreIdle /\ CkptIdle /\ MsgIdle /\ InvIdle /\ PrioIdle /\ RankIdle /\ PageIdle /\ NameIdle /\ CycleIdle /\ SavedIdle /\ CloudIdle

SpecCancel == InitCancel /\ [][NextCancel]_vars

\* ------------------------------------------------------ AccountRotator steps

RotationModes == {"sequential", "random", "weighted", "smart"}

\* execute_parallel is not running
SchedIdle ==
    /\ pc = "off"
    /\ targets = <<>>
    /\ clients = <<>>
    /\ max_concurrent_arg = None
    /\ max_workers = None
    /\ max_concurrent = None
    /\ pending_targets = <<>>
    /\ running_tasks = {}
    /\ available_sessions = <<>>
    /\ results = [t \in {} |-> "None"]
    /\ parallel_tasks = [id \in {} |-> NullRow]
    /\ clock = 0
    /\ task_state = <<>>
    /\ done = {}
    /\ starting = {}
    /\ launches = <<>>

\* AccountRotator.__init__: every count 0, the accounts that miss a required
\* field marked unusable
RotInit ==
    /\ rotation_mode \in RotationModes
    /\ db_path \in BOOLEAN
    /\ \E invalid \in SUBSET Accounts :
          usage_counts = [a \in Accounts |-> IF a \in invalid THEN INF ELSE 0]
    /\ last_used = [a \in Accounts |-> 0]
    /\ iterator = 0
    /\ current_index = 0
    /\ account_rotation = [a \in Accounts |-> NewAccountRow]
    /\ now = 0
    /\ cooldown_deadline = [a \in Accounts |-> NULL]
    /\ returned = None
    /\ had_available = TRUE

\* get_next_account: what it does to the rotator
get_next_account ==
    /\ returned # Hang
    /\ had_available' = (AvailableIdx(usage_counts) # {})
    /\ IF AvailableIdx(usage_counts) = {}
       THEN IF rotation_mode \in {"random", "weighted", "smart"}
            THEN \* return self.accounts[0]  # Return first account as fallback
                 /\ returned' = 0
                 /\ UNCHANGED <<usage_counts, last_used, iterator, current_index,
                                account_rotation>>
            ELSE \* while self.usage_counts[selected_idx] == float('inf') never ends
                 /\ returned' = Hang
                 /\ UNCHANGED <<usage_counts, last_used, iterator, current_index,
                                account_rotation>>
       ELSE \E selected_idx \in Selected(rotation_mode, usage_counts, last_used, iterator) :
                 /\ usage_counts[selected_idx] < MaxUsage
                 /\ usage_counts' = [usage_counts EXCEPT ![selected_idx] = @ + 1]
                 /\ last_used' = [last_used EXCEPT ![selected_idx] = now]
                 /\ current_index' = selected_idx
                 /\ iterator' = IF rotation_mode \in {"random", "weighted", "smart"}
                                THEN iterator
                                ELSE (selected_idx + 1) % MaxAccounts
                 /\ account_rotation' = SaveAccountStats(account_rotation, selected_idx,
                                                         usage_counts', last_used')
                 /\ returned' = selected_idx
    /\ UNCHANGED <<rotation_mode, now, cooldown_deadline>>

\* a call of get_next_account
GetNextAccount ==
    /\ get_next_account
    /\ UNCHANGED <<schedVars, fwdVars, discVars, pdVars, faVars, hashVars, joinVars,
                   cancelVars, idxVars, storeVars, ckptVars, msgVars, invVars,
                   prioVars, rankVars, pageVars, nameVars, cycleVars, savedVars,
                   cloudVars>>

\* mark_account_failed(idx, error, cooldown_hours): what it does to the rotator
mark_account_failed ==
    /\ returned # Hang
    /\ \E arg \in Accounts \cup {None}, cooldown_hours \in {None, 1} :
          LET idx == IF arg = None THEN current_index ELSE arg
          IN /\ account_rotation[idx].flood_wait_count < MaxCount
             /\ usage_counts' = MarkFailedUsage(usage_counts, idx)
             /\ account_rotation' = MarkFailedRows(account_rotation, idx, "FloodWaitError",
                                                   cooldown_hours)
             /\ cooldown_deadline' = MarkFailedDeadline(cooldown_deadline, idx, cooldown_hours)
    /\ returned' = None
    /\ had_available' = TRUE
    /\ UNCHANGED <<rotation_mode, last_used, iterator, current_index, now>>

\* a call of mark_account_failed
MarkAccountFailed ==
    /\ mark_account_failed
    /\ UNCHANGED <<schedVars, fwdVars, discVars, pdVars, faVars, hashVars, joinVars,
                   cancelVars, idxVars, storeVars, ckptVars, msgVars, invVars,
                   prioVars, rankVars, pageVars, nameVars, cycleVars, savedVars,
                   cloudVars>>

\* mark_account_success(idx)
MarkAccountSuccess ==
    /\ returned # Hang
    /\ db_path
    /\ \E arg \in Accounts \cup {None} :
          LET idx == IF arg = None THEN current_index ELSE arg
          IN /\ account_rotation[idx].success_count < MaxCount
             /\ account_rotation' = MarkSuccessRows(account_rotation, idx)
    /\ returned' = None
    /\ had_available' = TRUE
    /\ UNCHANGED <<rotation_mode, usage_counts, last_used, iterator, current_index, now,
                   cooldown_deadline>>
    /\ UNCHANGED <<schedVars, fwdVars, discVars, pdVars, faVars, hashVars, joinVars,
                   cancelVars, idxVars, storeVars, ckptVars, msgVars, invVars,
                   prioVars, rankVars, pageVars, nameVars, cycleVars, savedVars,
                   cloudVars>>

\* reset_usage_counts
ResetUsageCounts ==
    /\ returned # Hang
    /\ usage_counts' = ResetUsage(usage_counts)
    /\ account_rotation' = ResetRows(account_rotation)
    /\ returned' = None
    /\ had_available' = TRUE
    /\ UNCHANGED <<rotation_mode, last_used, iterator, current_index, now,
                   cooldown_deadline>>
    /\ UNCHANGED <<schedVars, fwdVars, discVars, pdVars, faVars, hashVars, joinVars,
                   cancelVars, idxVars, storeVars, ckptVars, msgVars, invVars,
                   prioVars, rankVars, pageVars, nameVars, cycleVars, savedVars,
                   cloudVars>>

\* an hour passes
RotTick ==
    /\ returned # Hang
    /\ now < MaxNow
    /\ now' = now + 1
    /\ returned' = None
    /\ had_available' = TRUE
    /\ UNCHANGED <<rotation_mode, usage_counts, last_used, iterator, current_index,
                   account_rotation, cooldown_deadline>>
    /\ UNCHANGED <<schedVars, fwdVars, discVars, pdVars, faVars, hashVars, joinVars,
                   cancelVars, idxVars, storeVars, ckptVars, msgVars, invVars,
                   prioVars, rankVars, pageVars, nameVars, cycleVars, savedVars,
                   cloudVars>>

NextRot ==
    \/ GetNextAccount
    \/ MarkAccountFailed
    \/ MarkAccountSuccess
    \/ ResetUsageCounts
    \/ RotTick

InitRot == RotInit /\ SchedIdle /\ FwdIdle /\ DiscIdle /\ PDIdle /\ FAIdle /\ HashIdle /\ JoinIdle /\ CancelIdle /\ IdxIdle /\ StoreIdle /\ CkptIdle /\ MsgIdle /\ InvIdle /\ PrioIdle /\ RankIdle /\ PageIdle /\ NameIdle /\ CycleIdle /\ SavedIdle /\ CloudIdle

SpecRot == InitRot /\ [][NextRot]_vars

\* ======================================================= AttachmentForwarder

\* message.media: its class name and the attributes the hash reads
\* (None: the attribute is missing or None)
NoMedia ==
    [type |-> "none", id |-> None, access_hash |-> None, file_id |-> None,
     file_size |-> None, url |-> ""]
PhotoA ==
    [type |-> "MessageMediaPhoto", id |-> 42, access_hash |-> 7, file_id |-> None,
     file_size |-> None, url |-> ""]
PollC ==
    [type |-> "MessageMediaPoll", id |-> None, access_hash |-> None, file_id |-> None,
     file_size |-> None, url |-> ""]

\* the contents a message of the origin can have
Contents ==
    {[text |-> "hello", media |-> NoMedia],
     [text |-> "", media |-> PhotoA],
     [text |-> "", media |-> PollC]}

HasMedia(m) == m.media.type # "none"

\* content_parts of _compute_message_hash, in the order they are appended
ContentParts(m, id) ==
    LET text == IF m.text # "" THEN <<m.text>> ELSE <<>>
        media ==
            IF HasMedia(m)
            THEN (IF m.media.id # None
                  THEN <<"media_id:" \o ToString(m.media.id)>> ELSE <<>>)
                 \o (IF m.media.access_hash # None
                     THEN <<"media_hash:" \o ToString(m.media.access_hash)>> ELSE <<>>)
                 \o (IF m.media.file_id # None
                     THEN <<"file_id:" \o ToString(m.media.file_id)>> ELSE <<>>)
                 \o (IF m.media.file_size # None
                     THEN <<"file_size:" \o ToString(m.media.file_size)>> ELSE <<>>)
                 \o (IF m.media.type = "MessageMediaWebPage" /\ m.media.url # ""
                     THEN <<"webpage_url:" \o m.media.url>> ELSE <<>>)
            ELSE <<>>
        parts == text \o media
        parts2 == IF parts = <<>> /\ HasMedia(m)
                  THEN <<"media_type:" \o m.media.type>> ELSE parts
    IN IF parts2 = <<>> /\ m.text = ""
       THEN <<"message_obj_id:" \o ToString(id)>> ELSE parts2

\* the place of a part in Python's order of strings: the parts of one message
\* differ in their prefix, and the text "hello" sorts between "file_size:" and
\* "media_hash:"
PartNumbers == 0 .. 50
FileIdParts == {"file_id:" \o ToString(n) : n \in PartNumbers}
FileSizeParts == {"file_size:" \o ToString(n) : n \in PartNumbers}
MediaHashParts == {"media_hash:" \o ToString(n) : n \in PartNumbers}
MediaIdParts == {"media_id:" \o ToString(n) : n \in PartNumbers}
MessageObjIdParts == {"message_obj_id:" \o ToString(n) : n \in PartNumbers}
PartRank(p) ==
    CASE p \in FileIdParts -> 1
      [] p \in FileSizeParts -> 2
      [] p = "hello" -> 3
      [] p \in MediaHashParts -> 4
      [] p \in MediaIdParts -> 5
      [] p = "media_type:MessageMediaPoll" -> 6
      [] p \in MessageObjIdParts -> 7
      [] OTHER -> 8

\* list.insert at the place sorted() gives the part
RECURSIVE InsertSorted(_, _)
InsertSorted(p, q) ==
    IF q = <<>> THEN <<p>>
    ELSE IF PartRank(p) < PartRank(Head(q)) THEN <<p>> \o q
    ELSE <<Head(q)>> \o InsertSorted(p, Tail(q))

Unsorted(parts) == parts

\* sorted(str(p) for p in content_parts)
RECURSIVE Sorted(_)
Sorted(parts) ==
    IF parts = <<>> THEN <<>> ELSE InsertSorted(Head(parts), Sorted(Tail(parts)))

\* "|".join(...)
RECURSIVE Join(_)
Join(q) ==
    IF q = <<>> THEN ""
    ELSE IF Len(q) = 1 THEN q[1]
    ELSE q[1] \o "|" \o Join(Tail(q))

\* hashlib.sha256(...).hexdigest(): the digest is taken to be injective
Sha256(content_string) == "sha256<" \o content_string \o ">"

\* lines 155-156: the hash of the parts collected
HashOfParts(parts) == Sha256(Join(Sorted(parts)))

\* _compute_message_hash
ComputeMessageHash(m, id) == HashOfParts(ContentParts(m, id))

HashOf(id) == ComputeMessageHash(origin[id], id)

\* _is_duplicate; db_ok: whether the SELECT succeeds
IsDuplicate(h, db_ok) ==
    /\ enable_deduplication
    /\ \/ h \in message_hashes
       \/ fwd_db /\ db_ok /\ h \in DOMAIN forwarded_messages

\* _is_duplicate: the cache after the check
CacheAfterCheck(h, db_ok) ==
    IF enable_deduplication /\ h \notin message_hashes
       /\ fwd_db /\ db_ok /\ h \in DOMAIN forwarded_messages
    THEN message_hashes \cup {h}
    ELSE message_hashes

\* _record_forwarded: the cache afterwards
CacheAfterRecord(cache, h) ==
    IF ~enable_deduplication \/ ~fwd_db THEN cache ELSE cache \cup {h}

\* _record_forwarded: the table afterwards (INSERT OR IGNORE); db_ok: whether
\* the INSERT succeeds
RowsAfterRecord(rows, h, id, db_ok) ==
    IF ~enable_deduplication \/ ~fwd_db \/ ~db_ok \/ h \in DOMAIN rows THEN rows
    ELSE [k \in (DOMAIN rows) \cup {h} |->
            IF k = h THEN [origin_id |-> "origin", destination_id |-> "destination",
                           message_id |-> id]
            ELSE rows[k]]

\* how the send to a destination can end
SendOutcomes == {"ok", "flood", "permission", "rpc", "auth", "other"}

ForwardedMainAlways(outcome) == TRUE

\* successfully_forwarded_main when line 421 is reached
ForwardedMain(outcome) == outcome = "ok"

\* the loop going back to the message before
PreviousMessage(pos) == IF pos > 1 THEN pos - 1 ELSE pos + 1

\* async for message in client.iter_messages(origin_entity): the position of
\* the message the loop takes next
NextMessage(pos) == pos + 1

\* AttachmentForwarder.__init__ on a new table
FwdInit ==
    /\ fwd_pc = "idle"
    /\ enable_deduplication \in BOOLEAN
    /\ fwd_db \in BOOLEAN
    /\ secondary_unique_destination \in BOOLEAN
    /\ origin \in SeqsUpTo(Contents, MaxMsgs)
    /\ msg_pos = 0
    /\ forwarded_messages = [h \in {} |-> 0]
    /\ message_hashes = {}
    /\ primary_sent = [id \in DOMAIN origin |-> 0]
    /\ secondary_sent = {}
    /\ last_outcome = "none"
    /\ last_sent = 0
    /\ passes = 0

\* forward_messages, lines 332-350: the client and both entities are resolved
ForwardMessagesStart ==
    /\ fwd_pc = "idle"
    /\ passes < MaxPasses
    /\ fwd_pc' = "iterating"
    /\ msg_pos' = 1
    /\ last_outcome' = "none"
    /\ last_sent' = 0
    /\ UNCHANGED <<enable_deduplication, fwd_db, secondary_unique_destination, origin,
                   forwarded_messages, message_hashes, primary_sent, secondary_sent,
                   passes>>
    /\ UNCHANGED <<schedVars, rotVars, discVars, pdVars, faVars, hashVars, joinVars,
                   cancelVars, idxVars, storeVars, ckptVars, msgVars, invVars,
                   prioVars, rankVars, pageVars, nameVars, cycleVars, savedVars,
                   cloudVars>>

\* forward_messages, lines 350-443: one message of the origin. A send that
\* raises is caught by one of the except clauses, each of which continues with
\* the next message.
ProcessMessage ==
    /\ fwd_pc = "iterating"
    /\ msg_pos <= Len(origin)
    /\ msg_pos' = NextMessage(msg_pos)
    /\ LET message == origin[msg_pos]
           h == HashOf(msg_pos)
       IN \E select_ok \in (IF fwd_db /\ enable_deduplication THEN BOOLEAN ELSE {TRUE}) :
          IF IsDuplicate(h, select_ok)
          THEN /\ message_hashes' = CacheAfterCheck(h, select_ok)
               /\ last_outcome' = "duplicate"
               /\ UNCHANGED <<forwarded_messages, primary_sent, secondary_sent,
                              last_sent>>
          ELSE IF ~HasMedia(message)
          THEN /\ last_outcome' = "no media"
               /\ UNCHANGED <<forwarded_messages, message_hashes, primary_sent,
                              secondary_sent, last_sent>>
          ELSE \E main \in SendOutcomes :
               /\ last_outcome' = main
               /\ last_sent' = IF main = "ok" THEN msg_pos ELSE last_sent
               /\ primary_sent' = IF main = "ok"
                                  THEN [primary_sent EXCEPT ![msg_pos] = Min(@ + 1, 2)]
                                  ELSE primary_sent
               /\ IF ForwardedMain(main)
                  THEN /\ message_hashes' = CacheAfterRecord(message_hashes, h)
                       /\ \E insert_ok \in
                                (IF fwd_db /\ enable_deduplication THEN BOOLEAN ELSE {TRUE}) :
                             forwarded_messages' =
                                RowsAfterRecord(forwarded_messages, h, msg_pos, insert_ok)
                       /\ \E secondary \in
                                (IF secondary_unique_destination THEN {"ok", "other"}
                                 ELSE {"none"}) :
                             secondary_sent' = IF secondary = "ok"
                                               THEN secondary_sent \cup {msg_pos}
                                               ELSE secondary_sent
                  ELSE UNCHANGED <<forwarded_messages, message_hashes, secondary_sent>>
    /\ UNCHANGED <<fwd_pc, enable_deduplication, fwd_db, secondary_unique_destination,
                   origin, passes>>
    /\ UNCHANGED <<schedVars, rotVars, discVars, pdVars, faVars, hashVars, joinVars,
                   cancelVars, idxVars, storeVars, ckptVars, msgVars, invVars,
                   prioVars, rankVars, pageVars, nameVars, cycleVars, savedVars,
                   cloudVars>>

\* forward_messages, lines 487 and 509-513: the iteration has ended
ForwardMessagesEnd ==
    /\ fwd_pc = "iterating"
    /\ msg_pos > Len(origin)
    /\ fwd_pc' = "idle"
    /\ passes' = passes + 1
    /\ msg_pos' = 0
    /\ last_outcome' = "none"
    /\ last_sent' = 0
    /\ UNCHANGED <<enable_deduplication, fwd_db, secondary_unique_destination, origin,
                   forwarded_messages, message_hashes, primary_sent, secondary_sent>>
    /\ UNCHANGED <<schedVars, rotVars, discVars, pdVars, faVars, hashVars, joinVars,
                   cancelVars, idxVars, storeVars, ckptVars, msgVars, invVars,
                   prioVars, rankVars, pageVars, nameVars, cycleVars, savedVars,
                   cloudVars>>

\* a new AttachmentForwarder on the same table: _load_existing_hashes (which
\* loads nothing when its SELECT fails)
NewForwarder ==
    /\ fwd_pc = "idle"
    /\ \E select_ok \in BOOLEAN :
          message_hashes' = IF enable_deduplication /\ fwd_db /\ select_ok
                            THEN DOMAIN forwarded_messages ELSE {}
    /\ UNCHANGED <<fwd_pc, enable_deduplication, fwd_db, secondary_unique_destination,
                   origin, msg_pos, forwarded_messages, primary_sent, secondary_sent,
                   last_outcome, last_sent, passes>>
    /\ UNCHANGED <<schedVars, rotVars, discVars, pdVars, faVars, hashVars, joinVars,
                   cancelVars, idxVars, storeVars, ckptVars, msgVars, invVars,
                   prioVars, rankVars, pageVars, nameVars, cycleVars, savedVars,
                   cloudVars>>

NextFwd ==
    \/ ForwardMessagesStart
    \/ ProcessMessage
    \/ ForwardMessagesEnd
    \/ NewForwarder

InitFwd == FwdInit /\ SchedIdle /\ RotIdle /\ DiscIdle /\ PDIdle /\ FAIdle /\ HashIdle /\ JoinIdle /\ CancelIdle /\ IdxIdle /\ StoreIdle /\ CkptIdle /\ MsgIdle /\ InvIdle /\ PrioIdle /\ RankIdle /\ PageIdle /\ NameIdle /\ CycleIdle /\ SavedIdle /\ CloudIdle

SpecFwd == InitFwd /\ [][NextFwd]_vars

\* ============================================ SpectraCrawlerManager.discover_from_seed

\* the entity a name resolves to
Resolve(name) == IF name = SeedEntityId THEN SeedEntity ELSE name

\* the last value of range(depth + 1), line 1682
LastDepth(d) == (d + 1) - 1

\* the links at the given distance from the seed: those the messages of the
\* entities one step nearer hold
RECURSIVE AtDistance(_)
AtDistance(k) ==
    IF k = 0 THEN {SeedEntity}
    ELSE UNION {mentions[e] : e \in AtDistance(k - 1)}

\* the links at distance 1..d from the seed
WithinDistance(d) == UNION {AtDistance(k) : k \in 1 .. d}

\* discover_from_seed is called on an initialized manager
DiscInit ==
    /\ disc_pc = "start"
    /\ mentions \in [Entities -> SUBSET Entities]
    /\ depth \in 0 .. MaxDepth
    /\ current_depth = 0
    /\ current_seeds = {SeedEntity}
    /\ to_visit = {}
    /\ next_seeds = {}
    /\ visited = {}
    /\ all_discovered = {}
    /\ discovered_groups = {}
    /\ extract_failed = FALSE
    /\ iterated = [e \in Entities |-> 0]

\* lines 1664-1683: join the seed, then enter the loop over the depths
JoinSeed ==
    /\ disc_pc = "start"
    /\ \E joined \in BOOLEAN :
          /\ current_seeds' = IF joined THEN {SeedEntityId} ELSE {SeedEntity}
          /\ to_visit' = current_seeds'
    /\ current_depth' = 0
    /\ next_seeds' = {}
    /\ disc_pc' = "extract"
    /\ UNCHANGED <<mentions, depth, visited, all_discovered, discovered_groups,
                   extract_failed, iterated>>
    /\ UNCHANGED <<schedVars, rotVars, fwdVars, pdVars, faVars, hashVars, joinVars,
                   cancelVars, idxVars, storeVars, ckptVars, msgVars, invVars,
                   prioVars, rankVars, pageVars, nameVars, cycleVars, savedVars,
                   cloudVars>>

\* lines 1685-1710: one entity of current_seeds
ExtractFromEntity ==
    /\ disc_pc = "extract"
    /\ \E entity \in to_visit :
          /\ to_visit' = to_visit \ {entity}
          /\ IF entity \in visited
             THEN UNCHANGED <<visited, all_discovered, discovered_groups, next_seeds,
                              extract_failed, iterated>>
             ELSE /\ visited' = visited \cup {entity}
                  /\ \E ok \in BOOLEAN :
                        LET new_links == IF ok THEN mentions[Resolve(entity)] ELSE {}
                        IN /\ discovered_groups' = discovered_groups \cup new_links
                           /\ all_discovered' = all_discovered \cup new_links
                           /\ next_seeds' = IF current_depth < depth
                                            THEN next_seeds \cup new_links
                                            ELSE next_seeds
                           /\ extract_failed' = (extract_failed \/ ~ok)
                           /\ iterated' = IF ok
                                          THEN [iterated EXCEPT ![Resolve(entity)] =
                                                    Min(@ + 1, 2)]
                                          ELSE iterated
    /\ UNCHANGED <<disc_pc, mentions, depth, current_depth, current_seeds>>
    /\ UNCHANGED <<schedVars, rotVars, fwdVars, pdVars, faVars, hashVars, joinVars,
                   cancelVars, idxVars, storeVars, ckptVars, msgVars, invVars,
                   prioVars, rankVars, pageVars, nameVars, cycleVars, savedVars,
                   cloudVars>>

\* lines 1712-1719 and 1682-1683: the end of one depth
EndDepth ==
    /\ disc_pc = "extract"
    /\ to_visit = {}
    /\ current_seeds' = next_seeds
    /\ IF next_seeds = {} \/ current_depth >= LastDepth(depth)
       THEN /\ disc_pc' = "return"
            /\ UNCHANGED <<current_depth, to_visit, next_seeds>>
       ELSE /\ current_depth' = current_depth + 1
            /\ to_visit' = next_seeds
            /\ next_seeds' = {}
            /\ UNCHANGED disc_pc
    /\ UNCHANGED <<mentions, depth, visited, all_discovered, discovered_groups,
                   extract_failed, iterated>>
    /\ UNCHANGED <<schedVars, rotVars, fwdVars, pdVars, faVars, hashVars, joinVars,
                   cancelVars, idxVars, storeVars, ckptVars, msgVars, invVars,
                   prioVars, rankVars, pageVars, nameVars, cycleVars, savedVars,
                   cloudVars>>

\* lines 1721-1728
DiscoverReturn ==
    /\ disc_pc = "return"
    /\ disc_pc' = "returned"
    /\ UNCHANGED <<mentions, depth, current_depth, current_seeds, to_visit, next_seeds,
                   visited, all_discovered, discovered_groups, extract_failed, iterated>>
    /\ UNCHANGED <<schedVars, rotVars, fwdVars, pdVars, faVars, hashVars, joinVars,
                   cancelVars, idxVars, storeVars, ckptVars, msgVars, invVars,
                   prioVars, rankVars, pageVars, nameVars, cycleVars, savedVars,
                   cloudVars>>

NextDisc ==
    \/ JoinSeed
    \/ ExtractFromEntity
    \/ EndDepth
    \/ DiscoverReturn

InitDisc == DiscInit /\ SchedIdle /\ RotIdle /\ FwdIdle /\ PDIdle /\ FAIdle /\ HashIdle /\ JoinIdle /\ CancelIdle /\ IdxIdle /\ StoreIdle /\ CkptIdle /\ MsgIdle /\ InvIdle /\ PrioIdle /\ RankIdle /\ PageIdle /\ NameIdle /\ CycleIdle /\ SavedIdle /\ CloudIdle

SpecDisc == InitDisc /\ [][NextDisc]_vars

\* ============================================ ParallelTaskScheduler.parallel_discovery

\* the links messages can hold, and the entity id a join returns for a link
PDLinks == {"@a", "@b"}
EntityId(link) == "id:" \o link

\* list(discovered)[:5], line 1326
DiscoveredLimit == 5

\* list(s): the elements of a set or the keys of a dict in one order
RECURSIVE ListOf(_)
ListOf(S) ==
    IF S = {} THEN <<>>
    ELSE LET x == CHOOSE y \in S : TRUE IN <<x>> \o ListOf(S \ {x})

FirstFive(q) == SubSeq(q, 1, Min(Len(q), DiscoveredLimit))

\* lines 1324-1326: new_seeds, from every value of all_discovered
RECURSIVE NewSeeds(_, _)
NewSeeds(all, keys) ==
    IF keys = <<>> THEN <<>>
    ELSE FirstFive(ListOf(all[Head(keys)].val)) \o NewSeeds(all, Tail(keys))

\* what a task_fn call can end with: the value returned, or an exception
\* (execute_parallel then records None)
TaskResults(kind, target) ==
    IF kind = "join"
    THEN {[ok |-> TRUE, val |-> {EntityId(target)}], [ok |-> FALSE, val |-> {}]}
    ELSE {[ok |-> TRUE, val |-> links] : links \in SUBSET PDLinks}
         \cup {[ok |-> FALSE, val |-> {}]}

CallDoneEarly == pd_pending = <<>>

\* the outer loop of execute_parallel has ended (line 1140, lines 1167-1175)
CallDone == pd_pending = <<>> /\ pd_running = {}

\* the guard of the inner while loop of execute_parallel, with max_concurrent
\* and the sessions both the number of connected accounts
PDCanStart == pd_pending # <<>> /\ Cardinality(pd_running) < pd_clients

\* parallel_discovery(seed_entities, depth) is called
PDInit ==
    /\ pd_pc = "start"
    /\ pd_phase = "none"
    /\ pd_depth \in 1 .. MaxPDepth
    /\ pd_layer = 0
    /\ pd_clients \in 0 .. MaxAccounts
    /\ pd_pending \in SeqsUpTo(PDLinks, MaxTargets)
    /\ pd_running = {}
    /\ pd_results = [t \in {} |-> 0]
    /\ pd_valid_seeds = [t \in {} |-> 0]
    /\ pd_all_discovered = [t \in {} |-> 0]

\* line 1296: parallel_join(seed_entities); with no connected account
\* execute_parallel returns {} (lines 1125-1128) and so does parallel_discovery
PDStart ==
    /\ pd_pc = "start"
    /\ pd_phase' = "join"
    /\ pd_pc' = IF pd_clients = 0 THEN "returned" ELSE "schedule"
    /\ UNCHANGED <<pd_depth, pd_layer, pd_clients, pd_pending, pd_running, pd_results,
                   pd_valid_seeds, pd_all_discovered>>
    /\ UNCHANGED <<schedVars, rotVars, fwdVars, discVars, faVars, hashVars, joinVars,
                   cancelVars, idxVars, storeVars, ckptVars, msgVars, invVars,
                   prioVars, rankVars, pageVars, nameVars, cycleVars, savedVars,
                   cloudVars>>

\* execute_parallel, lines 1142-1165: a task is created for the next target
PDLaunch ==
    /\ pd_pc = "schedule"
    /\ PDCanStart
    /\ pd_pending' = Tail(pd_pending)
    /\ pd_running' = pd_running \cup
          {[target |-> Head(pd_pending), n |-> Len(pd_pending), layer |-> pd_layer,
            kind |-> pd_phase, state |-> "running", ok |-> FALSE, val |-> {}]}
    /\ UNCHANGED <<pd_pc, pd_phase, pd_depth, pd_layer, pd_clients, pd_results,
                   pd_valid_seeds, pd_all_discovered>>
    /\ UNCHANGED <<schedVars, rotVars, fwdVars, discVars, faVars, hashVars, joinVars,
                   cancelVars, idxVars, storeVars, ckptVars, msgVars, invVars,
                   prioVars, rankVars, pageVars, nameVars, cycleVars, savedVars,
                   cloudVars>>

\* execute_parallel, line 1178: suspended in asyncio.wait
PDWait ==
    /\ pd_pc = "schedule"
    /\ ~PDCanStart
    /\ pd_running # {}
    /\ pd_pc' = "wait"
    /\ UNCHANGED <<pd_phase, pd_depth, pd_layer, pd_clients, pd_pending, pd_running,
                   pd_results, pd_valid_seeds, pd_all_discovered>>
    /\ UNCHANGED <<schedVars, rotVars, fwdVars, discVars, faVars, hashVars, joinVars,
                   cancelVars, idxVars, storeVars, ckptVars, msgVars, invVars,
                   prioVars, rankVars, pageVars, nameVars, cycleVars, savedVars,
                   cloudVars>>

\* a join_task or discovery_task call ends while execute_parallel is suspended
PDTaskFinish ==
    /\ pd_pc = "wait"
    /\ \E r \in pd_running :
          /\ r.state = "running"
          /\ \E res \in TaskResults(r.kind, r.target) :
                pd_running' = (pd_running \ {r}) \cup
                    {[r EXCEPT !.state = "done", !.ok = res.ok, !.val = res.val]}
    /\ UNCHANGED <<pd_pc, pd_phase, pd_depth, pd_layer, pd_clients, pd_pending,
                   pd_results, pd_valid_seeds, pd_all_discovered>>
    /\ UNCHANGED <<schedVars, rotVars, fwdVars, discVars, faVars, hashVars, joinVars,
                   cancelVars, idxVars, storeVars, ckptVars, msgVars, invVars,
                   prioVars, rankVars, pageVars, nameVars, cycleVars, savedVars,
                   cloudVars>>

\* execute_parallel, lines 1178-1185: asyncio.wait returns with the tasks done
\* (none on its timeout)
PDWaitReturn ==
    /\ pd_pc = "wait"
    /\ pd_pc' = IF \E r \in pd_running : r.state = "done" THEN "process" ELSE "schedule"
    /\ UNCHANGED <<pd_phase, pd_depth, pd_layer, pd_clients, pd_pending, pd_running,
                   pd_results, pd_valid_seeds, pd_all_discovered>>
    /\ UNCHANGED <<schedVars, rotVars, fwdVars, discVars, faVars, hashVars, joinVars,
                   cancelVars, idxVars, storeVars, ckptVars, msgVars, invVars,
                   prioVars, rankVars, pageVars, nameVars, cycleVars, savedVars,
                   cloudVars>>

\* execute_parallel, lines 1185-1222: one iteration of "for task in done";
\* after the last one, back to the top of the outer loop
PDProcessDone ==
    /\ pd_pc = "process"
    /\ \E r \in pd_running :
          /\ r.state = "done"
          /\ pd_running' = pd_running \ {r}
          /\ pd_results' = [t \in (DOMAIN pd_results) \cup {r.target} |->
                               IF t = r.target THEN [ok |-> r.ok, val |-> r.val]
                               ELSE pd_results[t]]
    /\ pd_pc' = IF \E r \in pd_running' : r.state = "done" THEN "process" ELSE "schedule"
    /\ UNCHANGED <<pd_phase, pd_depth, pd_layer, pd_clients, pd_pending, pd_valid_seeds,
                   pd_all_discovered>>
    /\ UNCHANGED <<schedVars, rotVars, fwdVars, discVars, faVars, hashVars, joinVars,
                   cancelVars, idxVars, storeVars, ckptVars, msgVars, invVars,
                   prioVars, rankVars, pageVars, nameVars, cycleVars, savedVars,
                   cloudVars>>

\* parallel_join has returned: lines 1299-1311 for the seeds, lines 1336-1348
\* for a later layer
PDAfterJoin ==
    /\ pd_pc = "schedule"
    /\ pd_phase = "join"
    /\ CallDone
    /\ LET valid == {t \in DOMAIN pd_results : pd_results[t].ok}
       IN /\ pd_valid_seeds' = [t \in valid |-> EntityId(t)]
          /\ IF valid = {}
             THEN /\ pd_pc' = "returned"
                  /\ UNCHANGED <<pd_phase, pd_pending>>
             ELSE /\ pd_phase' = "discovery"
                  /\ pd_pending' = ListOf({EntityId(t) : t \in valid})
                  /\ UNCHANGED pd_pc
    /\ pd_results' = [t \in {} |-> 0]
    /\ UNCHANGED <<pd_depth, pd_layer, pd_clients, pd_running, pd_all_discovered>>
    /\ UNCHANGED <<schedVars, rotVars, fwdVars, discVars, faVars, hashVars, joinVars,
                   cancelVars, idxVars, storeVars, ckptVars, msgVars, invVars,
                   prioVars, rankVars, pageVars, nameVars, cycleVars, savedVars,
                   cloudVars>>

\* the discovery call has returned: lines 1314-1332 for the seeds, lines
\* 1350-1353 and 1322-1332 for a later layer. list(None) raises TypeError.
PDAfterDiscovery ==
    /\ pd_pc = "schedule"
    /\ pd_phase = "discovery"
    /\ CallDone
    /\ LET all == [seed \in (DOMAIN pd_all_discovered) \cup (DOMAIN pd_valid_seeds) |->
                      IF seed \in DOMAIN pd_valid_seeds
                      THEN IF pd_valid_seeds[seed] \in DOMAIN pd_results
                           THEN pd_results[pd_valid_seeds[seed]]
                           ELSE [ok |-> TRUE, val |-> {}]
                      ELSE pd_all_discovered[seed]]
           new_seeds == NewSeeds(all, ListOf(DOMAIN all))
       IN /\ pd_all_discovered' = all
          /\ IF pd_layer + 1 >= pd_depth
             THEN /\ pd_pc' = "returned"
                  /\ UNCHANGED <<pd_phase, pd_layer, pd_pending>>
             ELSE IF \E seed \in DOMAIN all : ~all[seed].ok
             THEN /\ pd_pc' = "raised"
                  /\ UNCHANGED <<pd_phase, pd_layer, pd_pending>>
             ELSE IF new_seeds = <<>>
             THEN /\ pd_pc' = "returned"
                  /\ UNCHANGED <<pd_phase, pd_layer, pd_pending>>
             ELSE /\ pd_layer' = pd_layer + 1
                  /\ pd_phase' = "join"
                  /\ pd_pending' = new_seeds
                  /\ UNCHANGED pd_pc
    /\ pd_results' = [t \in {} |-> 0]
    /\ UNCHANGED <<pd_depth, pd_clients, pd_running, pd_valid_seeds>>
    /\ UNCHANGED <<schedVars, rotVars, fwdVars, discVars, faVars, hashVars, joinVars,
                   cancelVars, idxVars, storeVars, ckptVars, msgVars, invVars,
                   prioVars, rankVars, pageVars, nameVars, cycleVars, savedVars,
                   cloudVars>>

NextPD ==
    \/ PDStart
    \/ PDLaunch
    \/ PDWait
    \/ PDTaskFinish
    \/ PDWaitReturn
    \/ PDProcessDone
    \/ PDAfterJoin
    \/ PDAfterDiscovery

InitPD == PDInit /\ SchedIdle /\ RotIdle /\ FwdIdle /\ DiscIdle /\ FAIdle /\ HashIdle /\ JoinIdle /\ CancelIdle /\ IdxIdle /\ StoreIdle /\ CkptIdle /\ MsgIdle /\ InvIdle /\ PrioIdle /\ RankIdle /\ PageIdle /\ NameIdle /\ CycleIdle /\ SavedIdle /\ CloudIdle

SpecPD == InitPD /\ [][NextPD]_vars

\* ============================= AttachmentForwarder.forward_all_accessible_channels

\* the rows of account_channel_access
ChannelAccountPairs == {"C1", "C2"} \X {"accA", "accB"}

\* SpectraDB.get_all_unique_channels: the distinct (channel, account) pairs of
\* the access table, as a list
UniqueChannelLists ==
    {q \in SeqsUpTo(ChannelAccountPairs, MaxChannels) :
        \A i, j \in DOMAIN q : i # j => q[i] # q[j]}

\* how a forward_messages call can end: it returns, or it re-raises one of the
\* exceptions of lines 489-508
ForwardMessagesEnds ==
    {"ok", "ValueError", "ChannelPrivateError", "AuthKeyError", "RPCError",
     "ConnectionError", "Exception"}

CaughtChannelErrorsOnly(end) == end = "ChannelPrivateError"

\* "except Exception", line 572: every exception forward_messages raises is caught
Caught(end) == end # "ok"

\* close(): disconnects the client if there is one
ClientAfterClose(client) == FALSE

FAInit ==
    /\ fa_pc = "start"
    /\ fa_db \in BOOLEAN
    /\ fa_client \in BOOLEAN
    /\ unique_channels_with_accounts = <<>>
    /\ fa_pos = 0
    /\ fa_calls = <<>>
    /\ fa_report = <<>>

\* lines 537-557: without a database, when the read fails or yields nothing,
\* the call returns; otherwise the loop starts
FAStart ==
    /\ fa_pc = "start"
    /\ IF ~fa_db
       THEN /\ fa_pc' = "done"
            /\ UNCHANGED <<unique_channels_with_accounts, fa_pos, fa_calls, fa_report>>
       ELSE \E read_ok \in BOOLEAN, rows \in UniqueChannelLists :
               /\ unique_channels_with_accounts' = IF read_ok THEN rows ELSE <<>>
               /\ fa_calls' = [i \in DOMAIN unique_channels_with_accounts' |-> 0]
               /\ fa_report' = [i \in DOMAIN unique_channels_with_accounts' |-> "none"]
               /\ fa_pos' = IF unique_channels_with_accounts' = <<>> THEN 0 ELSE 1
               /\ fa_pc' = IF unique_channels_with_accounts' = <<>> THEN "done" ELSE "loop"
    /\ UNCHANGED <<fa_db, fa_client>>
    /\ UNCHANGED <<schedVars, rotVars, fwdVars, discVars, pdVars, hashVars, joinVars,
                   cancelVars, idxVars, storeVars, ckptVars, msgVars, invVars,
                   prioVars, rankVars, pageVars, nameVars, cycleVars, savedVars,
                   cloudVars>>

\* lines 557-570: close(), then forward_messages is called for the pair
FACall ==
    /\ fa_pc = "loop"
    /\ fa_client' = ClientAfterClose(fa_client)
    /\ fa_calls' = [fa_calls EXCEPT ![fa_pos] = @ + 1]
    /\ fa_pc' = "forwarding"
    /\ UNCHANGED <<fa_db, unique_channels_with_accounts, fa_pos, fa_report>>
    /\ UNCHANGED <<schedVars, rotVars, fwdVars, discVars, pdVars, hashVars, joinVars,
                   cancelVars, idxVars, storeVars, ckptVars, msgVars, invVars,
                   prioVars, rankVars, pageVars, nameVars, cycleVars, savedVars,
                   cloudVars>>

\* lines 566-580: forward_messages returns or raises (its finally clause has
\* cleared self._client); the loop goes on with the next pair
FAReturn ==
    /\ fa_pc = "forwarding"
    /\ \E end \in ForwardMessagesEnds :
          /\ fa_report' = [fa_report EXCEPT ![fa_pos] = end]
          /\ IF end = "ok" \/ Caught(end)
             THEN /\ fa_pos' = fa_pos + 1
                  /\ fa_pc' = IF fa_pos < Len(unique_channels_with_accounts)
                              THEN "loop" ELSE "done"
             ELSE /\ fa_pc' = "raised"
                  /\ UNCHANGED fa_pos
    /\ fa_client' = FALSE
    /\ UNCHANGED <<fa_db, unique_channels_with_accounts, fa_calls>>
    /\ UNCHANGED <<schedVars, rotVars, fwdVars, discVars, pdVars, hashVars, joinVars,
                   cancelVars, idxVars, storeVars, ckptVars, msgVars, invVars,
                   prioVars, rankVars, pageVars, nameVars, cycleVars, savedVars,
                   cloudVars>>

NextFA ==
    \/ FAStart
    \/ FACall
    \/ FAReturn

InitFA == FAInit /\ SchedIdle /\ RotIdle /\ FwdIdle /\ DiscIdle /\ PDIdle /\ HashIdle /\ JoinIdle /\ CancelIdle /\ IdxIdle /\ StoreIdle /\ CkptIdle /\ MsgIdle /\ InvIdle /\ PrioIdle /\ RankIdle /\ PageIdle /\ NameIdle /\ CycleIdle /\ SavedIdle /\ CloudIdle

SpecFA == InitFA /\ [][NextFA]_vars

\* ===================================== AttachmentForwarder._compute_message_hash

DocumentB ==
    [type |-> "MessageMediaDocument", id |-> None, access_hash |-> None, file_id |-> 5,
     file_size |-> 9, url |-> ""]

\* the text and media of the messages hashed
HashContents ==
    {[text |-> t, media |-> md] : t \in {"", "hello"},
                                  md \in {NoMedia, PhotoA, DocumentB, PollC}}

\* the messages hashed: text, media, id and date
HashMessages ==
    {[text |-> c.text, media |-> c.media, id |-> i, date |-> d] :
        c \in HashContents, i \in 1 .. MaxMsgs, d \in {1, 2}}

\* the orders in which n parts can be collected
Orders(n) == {o \in [1 .. n -> 1 .. n] : \A i, j \in 1 .. n : i # j => o[i] # o[j]}

\* two messages are given, and an order for the parts of the second
HashInit ==
    /\ hash_pc = "start"
    /\ hash_msgs \in [1 .. 2 -> HashMessages]
    /\ hash_order \in Orders(Len(ContentParts(hash_msgs[2], hash_msgs[2].id)))
    /\ hash_parts = <<>>
    /\ hash_values = <<>>

\* both are hashed, the parts of the second collected in the order given
ComputeHashes ==
    /\ hash_pc = "start"
    /\ LET p1 == ContentParts(hash_msgs[1], hash_msgs[1].id)
           p2 == ContentParts(hash_msgs[2], hash_msgs[2].id)
           q2 == [i \in DOMAIN p2 |-> p2[hash_order[i]]]
       IN /\ hash_parts' = <<p1, q2>>
          /\ hash_values' = <<HashOfParts(p1), HashOfParts(q2)>>
    /\ hash_pc' = "done"
    /\ UNCHANGED <<hash_msgs, hash_order>>
    /\ UNCHANGED <<schedVars, rotVars, fwdVars, discVars, pdVars, faVars, joinVars,
                   cancelVars, idxVars, storeVars, ckptVars, msgVars, invVars,
                   prioVars, rankVars, pageVars, nameVars, cycleVars, savedVars,
                   cloudVars>>

NextHash ==
    \/ ComputeHashes

InitHash == HashInit /\ SchedIdle /\ RotIdle /\ FwdIdle /\ DiscIdle /\ PDIdle /\ FAIdle /\ JoinIdle /\ CancelIdle /\ IdxIdle /\ StoreIdle /\ CkptIdle /\ MsgIdle /\ InvIdle /\ PrioIdle /\ RankIdle /\ PageIdle /\ NameIdle /\ CycleIdle /\ SavedIdle /\ CloudIdle

SpecHash == InitHash /\ [][NextHash]_vars

\* ====================================================== GroupManager.join_group

\* what Telegram answers to a join request
JoinAnswers ==
    {"ok", "flood", "too_much", "admin_required", "private", "user_banned",
     "expired", "auth"}

\* JoinChannelRequest takes no invite hash: it cannot find one expired
AnswersTo(link) ==
    IF link = "username" THEN JoinAnswers \ {"expired"} ELSE JoinAnswers

\* the branch of join_group an answer ends in: the handlers of the username
\* branch, those of the invite branch, and the outer except Exception
Handler(answer, link) ==
    CASE answer = "ok" -> "success"
      [] answer = "flood" -> "FloodWaitError"
      [] answer = "too_much" -> "ChannelsTooMuchError"
      [] answer = "admin_required" /\ link = "username" -> "return"
      [] answer = "expired" /\ link = "invite" -> "return"
      [] OTHER -> "Exception"

\* the cooldown_hours join_group passes to mark_account_failed
JoinCooldown(handler) ==
    CASE handler = "FloodWaitError" -> 1
      [] handler = "ChannelsTooMuchError" -> 24
      [] OTHER -> None

\* select_client() without a session name; every account has a client
select_client ==
    /\ get_next_account
    /\ active_client' = IF returned' = Hang THEN active_client ELSE returned'

\* init_clients has connected every account: the first one is active
JoinInit ==
    /\ join_pc = "idle"
    /\ rotate_policy \in {"per_operation", "per_session"}
    /\ target_link = "username"
    /\ active_client = 0
    /\ join_attempts = 0
    /\ flood_retries = 0
    /\ join_last = [account |-> None, answer |-> "none"]
    /\ fatal_reported = {}
    /\ usage_counts = [a \in Accounts |-> 0]

\* a caller calls join_group(target_link)
JoinGroupCall ==
    /\ join_pc = "idle"
    /\ join_pc' = "enter"
    /\ target_link' \in {"username", "invite"}
    /\ join_attempts' = 0
    /\ flood_retries' = 0
    /\ UNCHANGED <<rotate_policy, active_client, join_last, fatal_reported>>
    /\ UNCHANGED <<schedVars, rotVars, fwdVars, discVars, pdVars, faVars, hashVars,
                   cancelVars, idxVars, storeVars, ckptVars, msgVars, invVars,
                   prioVars, rankVars, pageVars, nameVars, cycleVars, savedVars,
                   cloudVars>>

\* join_group, from its entry to the join request
JoinEnter ==
    /\ join_pc = "enter"
    /\ IF active_client = None \/ rotate_policy = "per_operation"
       THEN select_client
       ELSE UNCHANGED <<rotVars, active_client>>
    /\ join_pc' = IF returned' = Hang THEN "hung" ELSE "request"
    /\ UNCHANGED <<rotate_policy, target_link, join_attempts, flood_retries, join_last,
                   fatal_reported>>
    /\ UNCHANGED <<schedVars, fwdVars, discVars, pdVars, faVars, hashVars, cancelVars,
                   idxVars, storeVars, ckptVars, msgVars, invVars, prioVars, rankVars,
                   pageVars, nameVars, cycleVars, savedVars, cloudVars>>

\* the join request is answered: the handler of the answer runs up to its
\* return or to its select_client
JoinRequest ==
    /\ join_pc = "request"
    /\ join_attempts < MaxAttempts
    /\ \E answer \in AnswersTo(target_link) :
          LET idx == active_client
              handler == Handler(answer, target_link)
          IN /\ join_attempts' = join_attempts + 1
             /\ join_last' = [account |-> idx, answer |-> answer]
             /\ fatal_reported' = IF answer = "auth" THEN fatal_reported \cup {idx}
                                                     ELSE fatal_reported
             /\ CASE handler = "success" ->
                       /\ db_path => account_rotation[idx].success_count < MaxCount
                       /\ account_rotation' = MarkSuccessRows(account_rotation, idx)
                       /\ UNCHANGED <<usage_counts, cooldown_deadline>>
                       /\ join_pc' = "idle"
                  [] handler = "return" ->
                       /\ UNCHANGED <<account_rotation, usage_counts, cooldown_deadline>>
                       /\ join_pc' = "idle"
                  [] handler = "Exception" ->
                       /\ db_path => account_rotation[idx].flood_wait_count < MaxCount
                       /\ usage_counts' = MarkFailedUsage(usage_counts, idx)
                       /\ account_rotation' = MarkFailedRows(account_rotation, idx, answer,
                                                             None)
                       /\ cooldown_deadline' = MarkFailedDeadline(cooldown_deadline, idx,
                                                                  None)
                       /\ join_pc' = "idle"
                  [] OTHER ->
                       /\ usage_counts' = MarkFailedUsage(usage_counts, idx)
                       /\ account_rotation' = MarkFailedRows(account_rotation, idx, handler,
                                                             JoinCooldown(handler))
                       /\ cooldown_deadline' = MarkFailedDeadline(cooldown_deadline, idx,
                                                                  JoinCooldown(handler))
                       /\ join_pc' = "retry"
    /\ returned' = None
    /\ had_available' = TRUE
    /\ UNCHANGED <<rotation_mode, last_used, iterator, current_index, now>>
    /\ UNCHANGED <<rotate_policy, target_link, active_client, flood_retries>>
    /\ UNCHANGED <<schedVars, fwdVars, discVars, pdVars, faVars, hashVars, cancelVars,
                   idxVars, storeVars, ckptVars, msgVars, invVars, prioVars, rankVars,
                   pageVars, nameVars, cycleVars, savedVars, cloudVars>>

\* "Try again with different account": select_client, then join_group again
JoinRetry ==
    /\ join_pc = "retry"
    /\ select_client
    /\ join_pc' = IF returned' = Hang THEN "hung" ELSE "enter"
    /\ flood_retries' = IF returned' # Hang /\ join_last.answer = "flood"
                        THEN flood_retries + 1
                        ELSE flood_retries
    /\ UNCHANGED <<rotate_policy, target_link, join_attempts, join_last, fatal_reported>>
    /\ UNCHANGED <<schedVars, fwdVars, discVars, pdVars, faVars, hashVars, cancelVars,
                   idxVars, storeVars, ckptVars, msgVars, invVars, prioVars, rankVars,
                   pageVars, nameVars, cycleVars, savedVars, cloudVars>>

\* lines 540-541: every account is marked unusable and the loop of the
\* sequential rotation takes the next index, again and again
SequentialSpin ==
    /\ join_pc = "hung"
    /\ iterator' = (iterator + 1) % MaxAccounts
    /\ UNCHANGED <<rotation_mode, usage_counts, last_used, current_index,
                   account_rotation, now, cooldown_deadline, returned, had_available>>
    /\ UNCHANGED <<joinVars, pageVars, nameVars, cycleVars, savedVars, cloudVars>>
    /\ UNCHANGED <<schedVars, fwdVars, discVars, pdVars, faVars, hashVars, cancelVars,
                   idxVars, storeVars, ckptVars, msgVars, invVars, prioVars, rankVars,
                   pageVars, nameVars, cycleVars, savedVars, cloudVars>>

NextJoin ==
    \/ JoinGroupCall
    \/ JoinEnter
    \/ JoinRequest
    \/ JoinRetry
    \/ SequentialSpin

InitJoin == JoinInit /\ RotInit /\ SchedIdle /\ FwdIdle /\ DiscIdle /\ PDIdle /\ FAIdle /\ HashIdle /\ CancelIdle /\ IdxIdle /\ StoreIdle /\ CkptIdle /\ MsgIdle /\ InvIdle /\ PrioIdle /\ RankIdle /\ PageIdle /\ NameIdle /\ CycleIdle /\ SavedIdle /\ CloudIdle

SpecJoin == InitJoin /\ [][NextJoin]_vars

\* ============================================ populate_account_channel_access

\* config.accounts: the second entry has no phone_number, the third one lacks
\* its api_hash
ConfigAccounts ==
    <<[session_name |-> "s1", phone_number |-> "+1", complete |-> TRUE],
      [session_name |-> "s2", phone_number |-> "", complete |-> TRUE],
      [session_name |-> "s3", phone_number |-> "+3", complete |-> FALSE]>>

\* account_details.get("phone_number", session_name)
PhoneNumber(account_details) ==
    IF account_details.phone_number # "" THEN account_details.phone_number
    ELSE account_details.session_name

\* the dialogs iter_dialogs can yield: channels under one of two titles,
\* and dialogs with a user
IdxChannels == {"c1", "c2"}
Dialogs ==
    [kind : {"Channel"}, id : IdxChannels, title : {"old", "new"}]
        \cup {[kind |-> "User", id |-> "u1", title |-> ""]}

\* a last_seen that is not read from the clock
StaleLastSeen(t) == 0

\* last_seen = datetime.now(timezone.utc).isoformat()
LastSeen(t) == t

\* upsert_account_channel_access: the row of the (account, channel) pair is
\* replaced, or inserted when there is none
Upsert(rows, row) ==
    {r \in rows : ~(r.account_phone_number = row.account_phone_number
                    /\ r.channel_id = row.channel_id)} \cup {row}

\* a new table
IdxInit ==
    /\ idx_pc = "idle"
    /\ idx_runs = 0
    /\ idx_account = 0
    /\ idx_dialogs = 0
    /\ idx_now = 0
    /\ account_channel_access = {}
    /\ idx_latest = [p \in {} |-> 0]

\* populate_account_channel_access is called, at a later time than before
Populate ==
    /\ idx_pc = "idle"
    /\ idx_runs < MaxRuns
    /\ idx_runs' = idx_runs + 1
    /\ idx_now' = idx_now + 1
    /\ idx_account' = 1
    /\ idx_dialogs' = 0
    /\ idx_pc' = "accounts"
    /\ UNCHANGED <<account_channel_access, idx_latest>>
    /\ UNCHANGED <<schedVars, rotVars, fwdVars, discVars, pdVars, faVars, hashVars,
                   joinVars, cancelVars, storeVars, ckptVars, msgVars, invVars,
                   prioVars, rankVars, pageVars, nameVars, cycleVars, savedVars,
                   cloudVars>>

\* lines 31-80: the next account; it is skipped when a field is missing, when
\* it is not authorized, or when connecting raises
NextAccount ==
    /\ idx_pc = "accounts"
    /\ idx_account <= Len(ConfigAccounts)
    /\ \E connected \in BOOLEAN :
          IF ConfigAccounts[idx_account].complete /\ connected
          THEN /\ idx_pc' = "dialogs"
               /\ idx_dialogs' = 0
               /\ UNCHANGED idx_account
          ELSE /\ idx_account' = idx_account + 1
               /\ UNCHANGED <<idx_pc, idx_dialogs>>
    /\ UNCHANGED <<idx_runs, idx_now, account_channel_access, idx_latest>>
    /\ UNCHANGED <<schedVars, rotVars, fwdVars, discVars, pdVars, faVars, hashVars,
                   joinVars, cancelVars, storeVars, ckptVars, msgVars, invVars,
                   prioVars, rankVars, pageVars, nameVars, cycleVars, savedVars,
                   cloudVars>>

\* lines 84-127: one dialog of the account
ProcessDialog ==
    /\ idx_pc = "dialogs"
    /\ idx_dialogs < MaxDialogs
    /\ idx_dialogs' = idx_dialogs + 1
    /\ \E dialog \in Dialogs :
          IF dialog.kind = "Channel"
          THEN LET phone_number == PhoneNumber(ConfigAccounts[idx_account])
                   row == [account_phone_number |-> phone_number,
                           channel_id |-> dialog.id,
                           channel_name |-> dialog.title,
                           last_seen |-> LastSeen(idx_now)]
                   pair == <<phone_number, dialog.id>>
               IN /\ account_channel_access' = Upsert(account_channel_access, row)
                  /\ idx_latest' =
                        [p \in (DOMAIN idx_latest) \cup {pair} |->
                            IF p = pair
                            THEN [channel_name |-> dialog.title, last_seen |-> idx_now]
                            ELSE idx_latest[p]]
          ELSE UNCHANGED <<account_channel_access, idx_latest>>
    /\ UNCHANGED <<idx_pc, idx_runs, idx_account, idx_now>>
    /\ UNCHANGED <<schedVars, rotVars, fwdVars, discVars, pdVars, faVars, hashVars,
                   joinVars, cancelVars, storeVars, ckptVars, msgVars, invVars,
                   prioVars, rankVars, pageVars, nameVars, cycleVars, savedVars,
                   cloudVars>>

\* lines 128-143: iter_dialogs is exhausted, or it raises midway: every
\* handler logs, the client is disconnected and the loop goes on
EndAccount ==
    /\ idx_pc = "dialogs"
    /\ idx_pc' = "accounts"
    /\ idx_account' = idx_account + 1
    /\ UNCHANGED <<idx_runs, idx_dialogs, idx_now, account_channel_access, idx_latest>>
    /\ UNCHANGED <<schedVars, rotVars, fwdVars, discVars, pdVars, faVars, hashVars,
                   joinVars, cancelVars, storeVars, ckptVars, msgVars, invVars,
                   prioVars, rankVars, pageVars, nameVars, cycleVars, savedVars,
                   cloudVars>>

\* line 145: every account was taken
PopulateReturn ==
    /\ idx_pc = "accounts"
    /\ idx_account > Len(ConfigAccounts)
    /\ idx_pc' = "idle"
    /\ idx_account' = 0
    /\ idx_dialogs' = 0
    /\ UNCHANGED <<idx_runs, idx_now, account_channel_access, idx_latest>>
    /\ UNCHANGED <<schedVars, rotVars, fwdVars, discVars, pdVars, faVars, hashVars,
                   joinVars, cancelVars, storeVars, ckptVars, msgVars, invVars,
                   prioVars, rankVars, pageVars, nameVars, cycleVars, savedVars,
                   cloudVars>>

NextIdx ==
    \/ Populate
    \/ NextAccount
    \/ ProcessDialog
    \/ EndAccount
    \/ PopulateReturn

InitIdx == IdxInit /\ SchedIdle /\ RotIdle /\ FwdIdle /\ DiscIdle /\ PDIdle /\ FAIdle /\ HashIdle /\ JoinIdle /\ CancelIdle /\ StoreIdle /\ CkptIdle /\ MsgIdle /\ InvIdle /\ PrioIdle /\ RankIdle /\ PageIdle /\ NameIdle /\ CycleIdle /\ SavedIdle /\ CloudIdle

SpecIdx == InitIdx /\ [][NextIdx]_vars

\* ================================================== DB: mutating operations

\* self.retries = 3
retries == 3

StoreOps == {"insert_user", "insert_media", "save_checkpoint"}

\* how one execute/commit can end: without an error, with the
\* OperationalError "database is locked" (busy) or "database table is locked"
\* (locked), with another OperationalError, or with another sqlite3.Error
TryEnds == {"ok", "busy", "locked", "operational", "integrity"}

\* "locked" in str(e).lower()
SaysLocked(end) == end \in {"busy", "locked"}

\* the exception handlers of the operation: what they do with an error of
\* attempt number n (1, 2, ...), given the backoff reached
OnError(op, end, n) ==
    CASE op = "insert_user" ->
            IF SaysLocked(end) THEN "sleep backoff" ELSE "raise"
      [] op = "insert_media" ->
            IF n = retries THEN "raise" ELSE "sleep 1"
      [] OTHER -> "log and return"

\* backoff = 1.0, then backoff *= 2 after every sleep
Backoff(n) == 2 ^ (n - 1)

StoreInit ==
    /\ st_pc = "idle"
    /\ st_op = "none"
    /\ st_tries = <<>>
    /\ st_waits = <<>>

\* a caller calls one of the operations
StoreCall ==
    /\ st_pc \in {"idle", "returned", "raised"}
    /\ st_op' \in StoreOps
    /\ st_pc' = "trying"
    /\ st_tries' = <<>>
    /\ st_waits' = <<>>
    /\ UNCHANGED <<schedVars, rotVars, fwdVars, discVars, pdVars, faVars, hashVars,
                   joinVars, cancelVars, idxVars, ckptVars, msgVars, invVars, prioVars,
                   rankVars, pageVars, nameVars, cycleVars, savedVars, cloudVars>>

\* one pass through the try block of the operation and, on an error, through
\* its handler
StoreAttempt ==
    /\ st_pc = "trying"
    /\ \E end \in TryEnds :
          LET n == Len(st_tries) + 1
              handler == OnError(st_op, end, n)
          IN /\ st_tries' = Append(st_tries, end)
             /\ IF end = "ok"
                THEN st_pc' = "returned" /\ UNCHANGED st_waits
                ELSE CASE handler = "raise" ->
                            st_pc' = "raised" /\ UNCHANGED st_waits
                       [] handler = "log and return" ->
                            st_pc' = "returned" /\ UNCHANGED st_waits
                       [] handler = "sleep 1" ->
                            /\ st_waits' = Append(st_waits, 1)
                            /\ st_pc' = "trying"
                       [] OTHER ->
                            /\ st_waits' = Append(st_waits, Backoff(n))
                            \* for attempt in range(1, self.retries + 1), then
                            \* raise Exception("insert_user failed ...")
                            /\ st_pc' = IF n = retries THEN "raised" ELSE "trying"
    /\ UNCHANGED st_op
    /\ UNCHANGED <<schedVars, rotVars, fwdVars, discVars, pdVars, faVars, hashVars,
                   joinVars, cancelVars, idxVars, ckptVars, msgVars, invVars, prioVars,
                   rankVars, pageVars, nameVars, cycleVars, savedVars, cloudVars>>

NextStore ==
    \/ StoreCall
    \/ StoreAttempt

InitStore == StoreInit /\ SchedIdle /\ RotIdle /\ FwdIdle /\ DiscIdle /\ PDIdle /\ FAIdle /\ HashIdle /\ JoinIdle /\ CancelIdle /\ IdxIdle /\ CkptIdle /\ MsgIdle /\ InvIdle /\ PrioIdle /\ RankIdle /\ PageIdle /\ NameIdle /\ CycleIdle /\ SavedIdle /\ CloudIdle

SpecStore == InitStore /\ [][NextStore]_vars

\* ========================================================= DB: checkpoints

Contexts == {"sync", "build"}
MessageIds == {1, 2}

\* the rows of a context
RowsOf(rows, context) == {i \in DOMAIN rows : rows[i].context = context}

\* WHERE context = ? ORDER BY checkpoint_time DESC LIMIT 1: a row of the
\* context with the greatest checkpoint_time; which one of several with that
\* time is not defined by the query
LatestRows(rows, context) ==
    {i \in RowsOf(rows, context) :
        \A j \in RowsOf(rows, context) : rows[j].checkpoint_time <= rows[i].checkpoint_time}

CkptInit ==
    /\ checkpoints = <<>>
    /\ utcnow = 0
    /\ latest_context = "none"
    /\ latest_result = None

\* the clock goes on
CkptTick ==
    /\ utcnow < MaxTime
    /\ utcnow' = utcnow + 1
    /\ UNCHANGED <<checkpoints, latest_context, latest_result>>
    /\ UNCHANGED <<schedVars, rotVars, fwdVars, discVars, pdVars, faVars, hashVars,
                   joinVars, cancelVars, idxVars, storeVars, msgVars, invVars,
                   prioVars, rankVars, pageVars, nameVars, cycleVars, savedVars,
                   cloudVars>>

\* save_checkpoint(last_message_id, context); an sqlite3.Error is logged and
\* nothing is stored
SaveCheckpoint ==
    /\ Len(checkpoints) < MaxCheckpoints
    /\ \E last_message_id \in MessageIds, context \in Contexts, ok \in BOOLEAN :
          checkpoints' =
             IF ok
             THEN Append(checkpoints, [last_message_id |-> last_message_id,
                                       checkpoint_time |-> utcnow,
                                       context |-> context])
             ELSE checkpoints
    /\ latest_context' = "none"
    /\ latest_result' = None
    /\ UNCHANGED utcnow
    /\ UNCHANGED <<schedVars, rotVars, fwdVars, discVars, pdVars, faVars, hashVars,
                   joinVars, cancelVars, idxVars, storeVars, msgVars, invVars,
                   prioVars, rankVars, pageVars, nameVars, cycleVars, savedVars,
                   cloudVars>>

\* get_latest_checkpoint(context)
GetLatestCheckpoint ==
    /\ \E context \in Contexts :
          /\ latest_context' = context
          /\ IF RowsOf(checkpoints, context) = {}
             THEN latest_result' = None
             ELSE \E i \in LatestRows(checkpoints, context) :
                     latest_result' = checkpoints[i].last_message_id
    /\ UNCHANGED <<checkpoints, utcnow>>
    /\ UNCHANGED <<schedVars, rotVars, fwdVars, discVars, pdVars, faVars, hashVars,
                   joinVars, cancelVars, idxVars, storeVars, msgVars, invVars,
                   prioVars, rankVars, pageVars, nameVars, cycleVars, savedVars,
                   cloudVars>>

NextCkpt ==
    \/ CkptTick
    \/ SaveCheckpoint
    \/ GetLatestCheckpoint

InitCkpt == CkptInit /\ SchedIdle /\ RotIdle /\ FwdIdle /\ DiscIdle /\ PDIdle /\ FAIdle /\ HashIdle /\ JoinIdle /\ CancelIdle /\ IdxIdle /\ StoreIdle /\ MsgIdle /\ InvIdle /\ PrioIdle /\ RankIdle /\ PageIdle /\ NameIdle /\ CycleIdle /\ SavedIdle /\ CloudIdle

SpecCkpt == InitCkpt /\ [][NextCkpt]_vars

\* =========================================================== DB: messages

\* a datetime: the wall-clock fields (hours since the start of month 0, a
\* month having MonthHours hours) and the UTC offset of its tzinfo in hours
UtcOffsets == {-2, 0, 1}
WallClocks == 1 .. 4
MonthHours == 3
Datetimes == [wall : WallClocks, utcoffset : UtcOffsets]

\* the instant a datetime denotes, in hours UTC
Instant(d) == d.wall - d.utcoffset

\* m.date.strftime("%Y-%m-%d %H:%M:%S"): the wall-clock fields, no offset
Strftime(d) == d.wall

\* strftime('%Y%m', messages.date)
YearMonth(stored) == stored \div MonthHours

\* pytz.utc.localize(date)
UtcLocalize(stored) == [wall |-> stored, utcoffset |-> 0]

\* date_obj.astimezone(self.tz)
AsTimezone(d, tz) == [wall |-> Instant(d) + tz, utcoffset |-> tz]

\* _make_message: the fields of the row that the claim reads
MakeMessage(r) ==
    [id |-> r.id, content |-> r.content, reply_to |-> r.reply_to,
     date |-> IF db_tz = None THEN UtcLocalize(r.date)
              ELSE AsTimezone(UtcLocalize(r.date), db_tz)]

\* the Messages a caller can insert
MsgInputs ==
    [id : {1, 2}, content : {"", "hi"}, reply_to : {None, 1}, date : Datetimes]

MsgInit ==
    /\ msg_pc = "new"
    /\ db_tz \in {None} \cup UtcOffsets
    /\ msg_in \in MsgInputs
    /\ messages = <<>>
    /\ msg_out = <<>>

\* insert_message(m): INSERT OR REPLACE INTO messages
InsertMessage ==
    /\ msg_pc = "new"
    /\ messages' = [id \in {msg_in.id} |->
                      [id |-> msg_in.id, content |-> msg_in.content,
                       reply_to |-> msg_in.reply_to, date |-> Strftime(msg_in.date)]]
    /\ msg_pc' = "inserted"
    /\ UNCHANGED <<db_tz, msg_in, msg_out>>
    /\ UNCHANGED <<schedVars, rotVars, fwdVars, discVars, pdVars, faVars, hashVars,
                   joinVars, cancelVars, idxVars, storeVars, ckptVars, invVars,
                   prioVars, rankVars, pageVars, nameVars, cycleVars, savedVars,
                   cloudVars>>

\* get_messages(year, month) for the year and month of the inserted date, or
\* for those of the instant it denotes
GetMessages ==
    /\ msg_pc = "inserted"
    /\ \E slug \in {YearMonth(msg_in.date.wall), YearMonth(Instant(msg_in.date))} :
          msg_out' = {MakeMessage(messages[id]) :
                        id \in {i \in DOMAIN messages : YearMonth(messages[i].date) = slug}}
    /\ msg_pc' = "read"
    /\ UNCHANGED <<db_tz, msg_in, messages>>
    /\ UNCHANGED <<schedVars, rotVars, fwdVars, discVars, pdVars, faVars, hashVars,
                   joinVars, cancelVars, idxVars, storeVars, ckptVars, invVars,
                   prioVars, rankVars, pageVars, nameVars, cycleVars, savedVars,
                   cloudVars>>

NextMsg ==
    \/ InsertMessage
    \/ GetMessages

InitMsg == MsgInit /\ SchedIdle /\ RotIdle /\ FwdIdle /\ DiscIdle /\ PDIdle /\ FAIdle /\ HashIdle /\ JoinIdle /\ CancelIdle /\ IdxIdle /\ StoreIdle /\ CkptIdle /\ InvIdle /\ PrioIdle /\ RankIdle /\ PageIdle /\ NameIdle /\ CycleIdle /\ SavedIdle /\ CloudIdle

SpecMsg == InitMsg /\ [][NextMsg]_vars

\* ------------------------------------------- CloudProcessor: invitation queue
\* cloud_processor.py.  The accounts of config.accounts in their order: one
\* without a session_name, two complete ones, one without api_hash.
ConfigSessions == <<"s1", "", "s2", "s3">>
SelectableSessions == {"s1", "s2"}
HasInviteDetails(session) == session \in {"s1", "s2"}

\* the entities the crawl reaches: channel id and what kind of entity it is
InvChannels == {"1", "2"}
EntityKinds == {"public", "channel", "user"}

\* line 195 and 228: f"{channel_identifier}:{target_account_session_name}"
InviteKey(channel, session) == channel \o ":" \o session

\* the keys of the items in a queue
QueuedKeys(queue) == {InviteKey(queue[i][1], queue[i][2]) : i \in DOMAIN queue}

\* list.remove(item): the first occurrence is removed
RECURSIVE Remove(_, _)
Remove(queue, item) ==
    IF queue = <<>> THEN <<>>
    ELSE IF Head(queue) = item THEN Tail(queue)
    ELSE <<Head(queue)>> \o Remove(Tail(queue), item)

\* lines 186-206: the loop over config.accounts from position i
RECURSIVE QueueFor(_, _, _)
QueueFor(queue, channel, i) ==
    IF i > Len(ConfigSessions) THEN queue
    ELSE LET target == ConfigSessions[i]
             is_in_queue == \E n \in DOMAIN queue : queue[n] = <<channel, target>>
         IN  IF target = "" \/ target = selected_account
             THEN QueueFor(queue, channel, i + 1)
             ELSE IF InviteKey(channel, target) \notin processed_invites /\ ~is_in_queue
             THEN QueueFor(Append(queue, <<channel, target>>), channel, i + 1)
             ELSE QueueFor(queue, channel, i + 1)

\* lines 135-154: what _load_invitation_state makes of the file
LoadInvitationState(file) ==
    IF file.exists /\ file.json THEN file.keys ELSE {}

\* lines 156-163: _save_invitation_state; open() raises and the file stays, or
\* the write ends midway after open() emptied the file, or the list is written.
\* Every exception is logged and swallowed.
SaveEnds == {"saved", "not opened", "cut"}
SaveInvitationState(file, keys, end) ==
    CASE end = "saved" -> JsonFile(keys)
      [] end = "not opened" -> file
      [] end = "cut" -> BrokenFile

\* how the processing of one queue item ends (lines 239-350)
InviteEnds(session) ==
    IF ~HasInviteDetails(session) THEN {"missing details", "outer error"}
    ELSE {"outer error", "unauthorized", "unresolved", "joined", "participant",
          "flood", "too many", "permission", "error"}
\* the ends that put the key into processed_invites and drop the item
MarksProcessed(end) ==
    end \in {"missing details", "unauthorized", "unresolved", "joined",
             "participant", "too many", "permission"}
\* the ends reached after JoinChannelRequest was sent (line 311)
SendsJoin(end) ==
    end \in {"joined", "participant", "flood", "too many", "permission", "error"}

\* cloud.invitation_delays of the configuration: the defaults of line 50,
\* shorter delays, and a minimum above the maximum
InvitationDelays ==
    {[min_seconds |-> 120, max_seconds |-> 600],
     [min_seconds |-> 30, max_seconds |-> 90],
     [min_seconds |-> 700, max_seconds |-> 600]}

\* e_flood.seconds of a FloodWaitError
InviteFloodSeconds == {20, 500, 600}

\* lines 326-327 with the floor lowered to the wait
DelaysAfterFloodLow(delays, seconds) ==
    [min_seconds |-> seconds + 60,
     max_seconds |-> Max(delays.max_seconds, seconds + 120)]

\* lines 326-327: the delays after a flood wait of the given seconds
DelaysAfterFlood(delays, seconds) ==
    [min_seconds |-> Max(delays.min_seconds, seconds + 60),
     max_seconds |-> Max(delays.max_seconds, seconds + 120)]

\* lines 47-55: a new CloudProcessor
InvInit ==
    /\ inv_pc = "crawl"
    /\ inv_runs = 1
    /\ auto_invite \in BOOLEAN
    /\ selected_account \in SelectableSessions
    /\ invite_queue = <<>>
    /\ items_to_process = <<>>
    /\ invitation_state_file = NoFile
    /\ processed_invites = LoadInvitationState(NoFile)
    /\ join_requested = {}
    /\ invite_delays \in InvitationDelays
    /\ invite_flood = 0

\* lines 165-206: _queue_channel_invitations(channel_entity)
QueueChannelInvitations ==
    /\ inv_pc = "crawl"
    /\ \E channel \in InvChannels, kind \in EntityKinds :
          invite_queue' = IF ~auto_invite \/ kind = "user" THEN invite_queue
                          ELSE QueueFor(invite_queue, channel, 1)
    /\ join_requested' = {}
    /\ invite_flood' = 0
    /\ UNCHANGED <<inv_pc, inv_runs, auto_invite, selected_account, items_to_process,
                   processed_invites, invitation_state_file, invite_delays>>
    /\ UNCHANGED <<schedVars, rotVars, fwdVars, discVars, pdVars, faVars, hashVars,
                   joinVars, cancelVars, idxVars, storeVars, ckptVars, msgVars,
                   prioVars, rankVars, pageVars, nameVars, cycleVars, savedVars,
                   cloudVars>>

\* lines 209-224: _process_invitation_queue is entered at the end of the run
ProcessInvitationQueue ==
    /\ inv_pc = "crawl"
    /\ IF invite_queue = <<>> \/ ~auto_invite
       THEN inv_pc' = "finished" /\ UNCHANGED items_to_process
       ELSE inv_pc' = "process" /\ items_to_process' = invite_queue
    /\ join_requested' = {}
    /\ invite_flood' = 0
    /\ UNCHANGED <<inv_runs, auto_invite, selected_account, invite_queue,
                   processed_invites, invitation_state_file, invite_delays>>
    /\ UNCHANGED <<schedVars, rotVars, fwdVars, discVars, pdVars, faVars, hashVars,
                   joinVars, cancelVars, idxVars, storeVars, ckptVars, msgVars,
                   prioVars, rankVars, pageVars, nameVars, cycleVars, savedVars,
                   cloudVars>>

\* lines 226-350: one item of the pass
ProcessInvitation ==
    /\ inv_pc = "process"
    /\ items_to_process # <<>>
    /\ LET item == Head(items_to_process)
           invite_key == InviteKey(item[1], item[2])
       IN  IF invite_key \in processed_invites
           THEN /\ invite_queue' = Remove(invite_queue, item)
                /\ join_requested' = {}
                /\ invite_flood' = 0
                /\ UNCHANGED <<processed_invites, invitation_state_file, invite_delays>>
           ELSE \E end \in InviteEnds(item[2]), save \in SaveEnds,
                   seconds \in InviteFloodSeconds :
                  /\ end # "flood" => seconds = 20
                  /\ invite_flood' = IF end = "flood" THEN seconds ELSE 0
                  /\ invite_delays' = IF end = "flood"
                                      THEN DelaysAfterFlood(invite_delays, seconds)
                                      ELSE invite_delays
                  /\ join_requested' = IF SendsJoin(end) THEN {invite_key} ELSE {}
                  /\ IF MarksProcessed(end)
                     THEN /\ processed_invites' = processed_invites \cup {invite_key}
                          /\ invite_queue' = Remove(invite_queue, item)
                          /\ invitation_state_file' =
                                SaveInvitationState(invitation_state_file,
                                                    processed_invites', save)
                     ELSE UNCHANGED <<processed_invites, invite_queue,
                                      invitation_state_file>>
    /\ items_to_process' = Tail(items_to_process)
    /\ UNCHANGED <<inv_pc, inv_runs, auto_invite, selected_account>>
    /\ UNCHANGED <<schedVars, rotVars, fwdVars, discVars, pdVars, faVars, hashVars,
                   joinVars, cancelVars, idxVars, storeVars, ckptVars, msgVars,
                   prioVars, rankVars, pageVars, nameVars, cycleVars, savedVars,
                   cloudVars>>

\* line 352: the pass is over
FinishPass ==
    /\ inv_pc = "process"
    /\ items_to_process = <<>>
    /\ inv_pc' = "finished"
    /\ join_requested' = {}
    /\ invite_flood' = 0
    /\ UNCHANGED <<inv_runs, auto_invite, selected_account, invite_queue,
                   items_to_process, processed_invites, invitation_state_file,
                   invite_delays>>
    /\ UNCHANGED <<schedVars, rotVars, fwdVars, discVars, pdVars, faVars, hashVars,
                   joinVars, cancelVars, idxVars, storeVars, ckptVars, msgVars,
                   prioVars, rankVars, pageVars, nameVars, cycleVars, savedVars,
                   cloudVars>>

\* the program is started again: lines 47-55 with the file the last run left
Restart ==
    /\ inv_pc = "finished"
    /\ inv_runs < MaxRuns
    /\ inv_runs' = inv_runs + 1
    /\ inv_pc' = "crawl"
    /\ auto_invite' \in BOOLEAN
    /\ selected_account' \in SelectableSessions
    /\ invite_queue' = <<>>
    /\ items_to_process' = <<>>
    /\ processed_invites' = LoadInvitationState(invitation_state_file)
    /\ join_requested' = {}
    /\ invite_delays' \in InvitationDelays
    /\ invite_flood' = 0
    /\ UNCHANGED invitation_state_file
    /\ UNCHANGED <<schedVars, rotVars, fwdVars, discVars, pdVars, faVars, hashVars,
                   joinVars, cancelVars, idxVars, storeVars, ckptVars, msgVars,
                   prioVars, rankVars, pageVars, nameVars, cycleVars, savedVars,
                   cloudVars>>

NextInv ==
    \/ QueueChannelInvitations
    \/ ProcessInvitationQueue
    \/ ProcessInvitation
    \/ FinishPass
    \/ Restart

InitInv == InvInit /\ SchedIdle /\ RotIdle /\ FwdIdle /\ DiscIdle /\ PDIdle /\ FAIdle /\ HashIdle /\ JoinIdle /\ CancelIdle /\ IdxIdle /\ StoreIdle /\ CkptIdle /\ MsgIdle /\ PrioIdle /\ RankIdle /\ PageIdle /\ NameIdle /\ CycleIdle /\ SavedIdle /\ CloudIdle

SpecInv == InitInv /\ [][NextInv]_vars

\* ------------------------------------ SpectraCrawlerManager: priority targets
\* discovery.py.  Priorities are counted in steps of 1 / MaxPriority.
GroupLinks == {"@a", "@b", "+c"}
StartsWithAt(link) == link \in {"@a", "@b"}

\* the sequences of at most n distinct links
LinkSeqs(n) ==
    UNION {{q \in [1 .. k -> GroupLinks] : \A i, j \in 1 .. k : i # j => q[i] # q[j]} :
             k \in 0 .. n}
AllLinkSeqs == LinkSeqs(MaxTopN)

\* ORDER BY priority DESC LIMIT n (lines 1797-1798) and sorted(..., reverse =
\* True)[:top_n] (lines 256-260) over the rows in from: every result the order
\* of equal priorities allows
TopRows(from, n) ==
    {q \in AllLinkSeqs :
        /\ Len(q) = IF Cardinality(from) < n THEN Cardinality(from) ELSE n
        /\ Range(q) \subseteq from
        /\ \A i \in 1 .. Len(q) - 1 : priority[q[i]] >= priority[q[i + 1]]
        /\ \A g \in from \ Range(q), i \in 1 .. Len(q) : priority[g] <= priority[q[i]]}

\* line 1796: WHERE priority >= ? AND status != 'archived'
WhereRows(min_priority) ==
    {g \in GroupLinks : priority[g] >= min_priority /\ status[g] # "archived"}

\* lines 1775-1817: what get_priority_targets(top_n, min_priority) can return.
\* Without a db the analyzer's export is returned (1777-1780); with one the
\* query is, or [] when it raises (1815-1817).
get_priority_targets(top_n, min_priority) ==
    IF ~has_db THEN TopRows(GroupLinks, top_n)
    ELSE TopRows(WhereRows(min_priority), top_n) \cup {<<>>}

\* lines 1477-1487, 1489-1510: a manager, with or without a database; every
\* discovered group is new
PrioInit ==
    /\ prio_pc = "ready"
    /\ prio_calls = 0
    /\ has_db \in BOOLEAN
    /\ priority \in [GroupLinks -> 0 .. MaxPriority]
    /\ status = [g \in GroupLinks |-> "new"]
    /\ prio_args = [top_n |-> 0, min_priority |-> 0]
    /\ prio_result = <<>>
    /\ archived_ok = {}

\* lines 1775-1817
GetPriorityTargets ==
    /\ prio_pc \in {"ready", "returned", "archived"}
    /\ prio_calls < MaxCalls
    /\ prio_calls' = prio_calls + 1
    /\ \E top_n \in 0 .. MaxTopN, min_priority \in 0 .. MaxPriority :
          /\ prio_args' = [top_n |-> top_n, min_priority |-> min_priority]
          /\ prio_result' \in get_priority_targets(top_n, min_priority)
    /\ prio_pc' = "returned"
    /\ UNCHANGED <<has_db, priority, status, archived_ok>>
    /\ UNCHANGED <<schedVars, rotVars, fwdVars, discVars, pdVars, faVars, hashVars,
                   joinVars, cancelVars, idxVars, storeVars, ckptVars, msgVars,
                   invVars, rankVars, pageVars, nameVars, cycleVars, savedVars,
                   cloudVars>>

\* lines 1872-1911 with batch_join_archive (964-995): every target is joined
\* and archived with success or not; after a success on an @-link get_entity
\* (977) can raise, which ends the call before the status update; the update
\* (1896-1909) can raise too, which is logged.
ArchivePriorityTargets ==
    /\ prio_pc \in {"ready", "returned", "archived"}
    /\ prio_calls < MaxCalls
    /\ prio_calls' = prio_calls + 1
    /\ \E top_n \in 1 .. MaxTopN :
       \E links \in get_priority_targets(top_n, 0) :
       \E success \in [1 .. Len(links) -> BOOLEAN], raised \in 0 .. Len(links),
          updated \in BOOLEAN :
          /\ raised # 0 => success[raised] /\ StartsWithAt(links[raised])
          /\ LET last == IF raised # 0 THEN raised ELSE Len(links)
                 archived == {links[i] : i \in {n \in 1 .. last : success[n]}}
             IN  /\ archived_ok' = archived_ok \cup archived
                 /\ status' = IF raised = 0 /\ has_db /\ updated
                               THEN [g \in GroupLinks |->
                                       IF g \in archived THEN "archived" ELSE status[g]]
                               ELSE status
    /\ prio_pc' = "archived"
    /\ UNCHANGED <<has_db, priority, prio_args, prio_result>>
    /\ UNCHANGED <<schedVars, rotVars, fwdVars, discVars, pdVars, faVars, hashVars,
                   joinVars, cancelVars, idxVars, storeVars, ckptVars, msgVars,
                   invVars, rankVars, pageVars, nameVars, cycleVars, savedVars,
                   cloudVars>>

NextPrio ==
    \/ GetPriorityTargets
    \/ ArchivePriorityTargets

InitPrio == PrioInit /\ SchedIdle /\ RotIdle /\ FwdIdle /\ DiscIdle /\ PDIdle /\ FAIdle /\ HashIdle /\ JoinIdle /\ CancelIdle /\ IdxIdle /\ StoreIdle /\ CkptIdle /\ MsgIdle /\ InvIdle /\ RankIdle /\ PageIdle /\ NameIdle /\ CycleIdle /\ SavedIdle /\ CloudIdle

SpecPrio == InitPrio /\ [][NextPrio]_vars

\* ------------------------------------- SpectraCrawlerManager: priority update
\* discovery.py, _update_group_priorities.  Reals are fixed-point numbers in
\* units of 1 / Scale, rounded down.
Scale == 100000
\* alpha = 0.85 in percent, and the number of power iterations computed
Alpha == 85
PowerIterations == 30

RECURSIVE SumOver(_, _)
SumOver(f, S) ==
    IF S = {} THEN 0
    ELSE LET v == CHOOSE v \in S : TRUE IN f[v] + SumOver(f, S \ {v})

\* lines 1742-1750: the nodes of G are the rows and the ends of every edge
GraphNodes(rows, edges) == rows \cup {e[1] : e \in edges} \cup {e[2] : e \in edges}
OutDegree(edges, u) == Cardinality({e \in edges : e[1] = u})
InDegree(edges, v) == Cardinality({e \in edges : e[2] = v})

\* nx.pagerank (line 1757), one power iteration: every node passes its rank
\* in equal parts along its out-edges (all weights are 1.0), a node without
\* out-edges passes it to all nodes in equal parts, and 1 - alpha is spread
\* evenly
PageRankStep(nodes, edges, x) ==
    LET n == Cardinality(nodes)
        dangling == SumOver([u \in nodes |-> IF OutDegree(edges, u) = 0 THEN x[u] ELSE 0],
                            nodes)
    IN  [v \in nodes |->
           (Alpha * (SumOver([u \in nodes |-> IF <<u, v>> \in edges
                                               THEN x[u] \div OutDegree(edges, u)
                                               ELSE 0], nodes)
                     + dangling \div n)
            + (100 - Alpha) * (Scale \div n)) \div 100]

\* k iterations from x; comparing next makes its evaluation complete before
\* the following iteration starts from it
RECURSIVE PageRankFrom(_, _, _, _)
PageRankFrom(nodes, edges, x, k) ==
    IF k = 0 THEN x
    ELSE LET next == PageRankStep(nodes, edges, x)
         IN  IF next = next THEN PageRankFrom(nodes, edges, next, k - 1)
             ELSE next

\* nx.pagerank(G, alpha=0.85): the iteration starts at 1 / n for every node
PageRank(nodes, edges) ==
    PageRankFrom(nodes, edges, [v \in nodes |-> Scale \div Cardinality(nodes)],
                 PowerIterations)

\* nx.in_degree_centrality(G) (line 1758): 1 for a graph of one node, else the
\* in-degree (an edge of a node to itself counts) divided by n - 1
InDegreeCentrality(nodes, edges) ==
    IF Cardinality(nodes) <= 1 THEN [v \in nodes |-> Scale]
    ELSE [v \in nodes |-> (InDegree(edges, v) * Scale) \div (Cardinality(nodes) - 1)]

\* line 1763: combined = score * 0.7 + in_degree.get(node, 0) * 0.3
Combined(score, in_degree) == (7 * score + 3 * in_degree) \div 10

\* the tables before a recomputation: every row has the default priority 0.0
RankInit ==
    /\ rank_pc = "ready"
    /\ rank_rows \in SUBSET GroupLinks
    /\ group_relationships \in SUBSET (GroupLinks \X GroupLinks)
    /\ rank_priority = [g \in rank_rows |-> 0]

\* lines 1730-1773: _update_group_priorities; without nodes it returns, an
\* exception is logged and nothing is committed
UpdateGroupPriorities ==
    /\ rank_pc = "ready"
    /\ LET nodes == GraphNodes(rank_rows, group_relationships)
           pagerank == PageRank(nodes, group_relationships)
           in_degree == InDegreeCentrality(nodes, group_relationships)
       IN  \/ /\ nodes # {}
              /\ rank_priority' = [g \in rank_rows |-> Combined(pagerank[g], in_degree[g])]
              /\ rank_pc' = "updated"
           \/ /\ rank_pc' = "failed"
              /\ UNCHANGED rank_priority
    /\ UNCHANGED <<rank_rows, group_relationships>>
    /\ UNCHANGED <<schedVars, rotVars, fwdVars, discVars, pdVars, faVars, hashVars,
                   joinVars, cancelVars, idxVars, storeVars, ckptVars, msgVars,
                   invVars, prioVars, pageVars, nameVars, cycleVars, savedVars,
                   cloudVars>>

NextRank == UpdateGroupPriorities

InitRank == RankInit /\ SchedIdle /\ RotIdle /\ FwdIdle /\ DiscIdle /\ PDIdle /\ FAIdle /\ HashIdle /\ JoinIdle /\ CancelIdle /\ IdxIdle /\ StoreIdle /\ CkptIdle /\ MsgIdle /\ InvIdle /\ PrioIdle /\ PageIdle /\ NameIdle /\ CycleIdle /\ SavedIdle /\ CloudIdle

SpecRank == InitRank /\ [][NextRank]_vars

\* ------------------------- discover_from_seed with the join_group it calls
\* The call of line 1670 is the join_group of the GroupManager above, with
\* its rotator; discover_from_seed goes on when join_group has returned.

\* the link graphs of this specification: no link at all, a seed that
\* mentions itself, a cycle of two and a cycle of three entities
SeedGraphs ==
    {[e \in Entities |-> {}],
     [e \in Entities |-> IF e = "a" THEN {"a"} ELSE {}],
     [e \in Entities |-> IF e = "a" THEN {"b"} ELSE IF e = "b" THEN {"a"} ELSE {}],
     [e \in Entities |-> IF e = "a" THEN {"b"} ELSE IF e = "b" THEN {"c"} ELSE {"a"}]}
SeedInputs == mentions \in SeedGraphs

\* line 1670: join_group(seed_entity) is called
SeedJoinCall ==
    /\ disc_pc = "start"
    /\ join_last.answer = "none"
    /\ JoinGroupCall

\* lines 1671-1683: join_group has returned; an entity id only after "ok"
SeedJoinReturn ==
    /\ join_pc = "idle"
    /\ join_last.answer # "none"
    /\ JoinSeed
    /\ (current_seeds' = {SeedEntityId}) <=> (join_last.answer = "ok")

NextSeed ==
    \/ SeedJoinCall
    \/ JoinEnter
    \/ JoinRequest
    \/ JoinRetry
    \/ SequentialSpin
    \/ SeedJoinReturn
    \/ ExtractFromEntity
    \/ EndDepth
    \/ DiscoverReturn

InitSeed == DiscInit /\ SeedInputs /\ JoinInit /\ RotInit /\ SchedIdle /\ FwdIdle /\ PDIdle /\ FAIdle /\ HashIdle /\ CancelIdle /\ IdxIdle /\ StoreIdle /\ CkptIdle /\ MsgIdle /\ InvIdle /\ PrioIdle /\ RankIdle /\ PageIdle /\ NameIdle /\ CycleIdle /\ SavedIdle /\ CloudIdle

\* the call is one coroutine that is never cancelled: it takes its next step
\* whenever it has one
SpecSeed == InitSeed /\ [][NextSeed]_vars /\ WF_vars(NextSeed)


\* ============================================================ DB: function PAGE

RECURSIVE Pow2(_)
Pow2(k) == IF k = 0 THEN 1 ELSE 2 * Pow2(k - 1)

\* num / den rounded to the nearest integer, a tie to the even one
RoundHalfEven(num, den) ==
    LET q == num \div den
        r == num % den
    IN  IF 2 * r < den THEN q
        ELSE IF 2 * r > den THEN q + 1
        ELSE IF q % 2 = 0 THEN q ELSE q + 1

\* num / den divided by 2^e, as a fraction of two integers
Scaled(num, den, e) ==
    IF e >= 0 THEN <<num, den * Pow2(e)>> ELSE <<num * Pow2(-e), den>>

\* the binary exponent of num / den > 0: the e for which
\* 2^(MantissaBits - 1) <= (num / den) / 2^e < 2^MantissaBits
Exponent(num, den) ==
    CHOOSE e \in -(2 * MantissaBits + 2) .. (2 * MantissaBits + 2) :
        LET s == Scaled(num, den, e)
        IN  /\ s[1] >= s[2] * Pow2(MantissaBits - 1)
            /\ s[1] < s[2] * Pow2(MantissaBits)

\* Python's n / multiple for two positive integers: the float nearest to the
\* quotient, i.e. a mantissa of MantissaBits bits and a binary exponent
TrueDiv(n, multiple) ==
    LET e == Exponent(n, multiple)
        s == Scaled(n, multiple, e)
    IN  [mant |-> RoundHalfEven(s[1], s[2]), exp |-> e]

\* math.ceil of a positive float: exact, the result is a Python integer
Ceil(f) ==
    IF f.exp >= 0
    THEN f.mant * Pow2(f.exp)
    ELSE (f.mant + Pow2(-f.exp) - 1) \div Pow2(-f.exp)

\* _page: math.ceil(n / multiple) if n > 0 else 1
_page(n, multiple) == IF n > 0 THEN Ceil(TrueDiv(n, multiple)) ELSE 1

\* the ceiling of n / multiple in the integers
ExactCeil(n, multiple) == (n + multiple - 1) \div multiple

\* a query is about to evaluate PAGE(rank, size)
PageInit ==
    /\ page_pc = "ready"
    /\ page_n \in 0 .. MaxRank
    /\ page_multiple \in 1 .. MaxSize
    /\ page_result = NULL

\* SQLite evaluates PAGE(rank, size) by calling _page
Page ==
    /\ page_pc = "ready"
    /\ page_result' = _page(page_n, page_multiple)
    /\ page_pc' = "returned"
    /\ UNCHANGED <<page_n, page_multiple>>
    /\ UNCHANGED <<schedVars, rotVars, fwdVars, discVars, pdVars, faVars, hashVars,
                   joinVars, cancelVars, idxVars, storeVars, ckptVars, msgVars,
                   invVars, prioVars, rankVars, nameVars, cycleVars, savedVars,
                   cloudVars>>

NextPage == Page

InitPage == PageInit /\ SchedIdle /\ RotIdle /\ FwdIdle /\ DiscIdle /\ PDIdle /\ FAIdle /\ HashIdle /\ JoinIdle /\ CancelIdle /\ IdxIdle /\ StoreIdle /\ CkptIdle /\ MsgIdle /\ InvIdle /\ PrioIdle /\ RankIdle /\ NameIdle /\ CycleIdle /\ SavedIdle /\ CloudIdle

SpecPage == InitPage /\ [][NextPage]_vars


\* ------------------------------------- AccountRotator, any registration order

\* a str comparison of two session names
LexLess(x, y) ==
    \E i, j \in DOMAIN SessionNames :
        SessionNames[i] = x /\ SessionNames[j] = y /\ i < j

\* self.accounts = accounts: the list is kept in the order it was given in
NamesInit ==
    session_name \in {f \in [Accounts -> {SessionNames[a + 1] : a \in Accounts}] :
                        \A a, b \in Accounts : a # b => f[a] # f[b]}

InitTie == RotInit /\ NamesInit /\ SchedIdle /\ FwdIdle /\ DiscIdle /\ PDIdle /\ FAIdle /\ HashIdle /\ JoinIdle /\ CancelIdle /\ IdxIdle /\ StoreIdle /\ CkptIdle /\ MsgIdle /\ InvIdle /\ PrioIdle /\ PageIdle /\ RankIdle /\ CycleIdle /\ SavedIdle /\ CloudIdle

SpecTie == InitTie /\ [][NextRot]_vars


\* --------------------------------------- AccountRotator, with its call history

\* the account is in cooldown: mark_account_failed was given a cooldown for it
\* that has not passed
Cooling(a) == cooldown_deadline[a] # NULL /\ cooldown_deadline[a] > now

\* the account has its required fields (__init__ did not mark it unusable)
Valid(a) == usage_counts[a] < INF \/ a \in reported

\* the accounts that are neither banned nor in cooldown (is_banned is set
\* nowhere in the rotator)
Eligible == {a \in Accounts : Valid(a) /\ ~Cooling(a)}

\* the last n elements of a sequence
LastN(s, n) == IF Len(s) <= n THEN s ELSE SubSeq(s, Len(s) - n + 1, Len(s))

CycleInit ==
    /\ window = <<>>
    /\ reported = {}

\* a call of get_next_account; the history keeps what it returned and which
\* accounts were eligible when it was made
CycleNext ==
    /\ get_next_account
    /\ window' = LastN(Append(window, [account |-> returned', eligible |-> Eligible]),
                       MaxAccounts)
    /\ UNCHANGED reported
    /\ UNCHANGED <<schedVars, fwdVars, discVars, pdVars, faVars, hashVars, joinVars,
                   cancelVars, idxVars, storeVars, ckptVars, msgVars, invVars,
                   prioVars, rankVars, pageVars, nameVars, savedVars, cloudVars>>

\* a call of mark_account_failed
CycleFail ==
    /\ mark_account_failed
    /\ window' = <<>>
    /\ reported' = reported \cup
          {a \in Accounts : usage_counts[a] < INF /\ usage_counts'[a] = INF}
    /\ UNCHANGED <<schedVars, fwdVars, discVars, pdVars, faVars, hashVars, joinVars,
                   cancelVars, idxVars, storeVars, ckptVars, msgVars, invVars,
                   prioVars, rankVars, pageVars, nameVars, savedVars, cloudVars>>

NextCycle ==
    \/ CycleNext
    \/ CycleFail
    \/ MarkAccountSuccess
    \/ ResetUsageCounts
    \/ RotTick

InitCycle == RotInit /\ CycleInit /\ SchedIdle /\ FwdIdle /\ DiscIdle /\ PDIdle /\ FAIdle /\ HashIdle /\ JoinIdle /\ CancelIdle /\ IdxIdle /\ StoreIdle /\ CkptIdle /\ MsgIdle /\ InvIdle /\ PrioIdle /\ PageIdle /\ NameIdle /\ RankIdle /\ SavedIdle /\ CloudIdle

SpecCycle == InitCycle /\ [][NextCycle]_vars


\* ================================ AttachmentForwarder.forward_messages: clients

\* the session names of the configured accounts
SavedSessions == {"alpha", "beta"}

\* e_flood.seconds
FloodSeconds == {1, 3}

\* the client objects in use: the one the local variable client refers to, the
\* one self._client refers to, and the connected ones nothing refers to
Gw == [client |-> sv_client, self |-> sv_self, other |-> sv_other, leaked |-> sv_leaked]

\* the object self._client refers to (NoClient for None)
Obj(g) ==
    CASE g.self = "local" -> g.client
      [] g.self = "other" -> g.other
      [] OTHER -> NoClient

\* obj.session.filename == str(Config().path.parent / session)
FilenameIs(obj, session) == ~sv_ext /\ obj.account = session

\* close(): disconnects self._client and clears it, when it is connected
Close(g) ==
    IF g.self = "none" \/ ~Obj(g).connected THEN g
    ELSE IF g.self = "local"
    THEN [g EXCEPT !.client = [@ EXCEPT !.connected = FALSE], !.self = "none"]
    ELSE [g EXCEPT !.other = NoClient, !.self = "none"]

\* _get_client reuses self._client (lines 263-266)
Reuses(g, session) ==
    g.self # "none" /\ FilenameIs(Obj(g), session) /\ Obj(g).connected

\* _get_client(session); ok: the new client connects and is authorized. The
\* object self._client referred to before is not disconnected.
GetClient(g, session, ok) ==
    IF Reuses(g, session) THEN g
    ELSE LET lost == IF g.self = "other" /\ g.other.connected
                     THEN {g.other.account} ELSE {}
         IN  IF ok
             THEN [g EXCEPT !.self = "other",
                            !.other = [account |-> session, connected |-> TRUE],
                            !.leaked = @ \cup lost]
             ELSE [g EXCEPT !.self = "none", !.other = NoClient, !.leaked = @ \cup lost]

\* client = await self._get_client(...): the local variable takes the object
\* self._client refers to
Adopt(g) ==
    IF g.self # "other" THEN g
    ELSE [g EXCEPT !.client = g.other, !.self = "local", !.other = NoClient,
                   !.leaked = @ \cup (IF g.client.connected THEN {g.client.account}
                                      ELSE {})]

\* asyncio.sleep(e_flood.seconds + 1) with the buffer left out
FloodSleepNoBuffer(seconds) == seconds

\* asyncio.sleep(e_flood.seconds + 1)
FloodSleep(seconds) == seconds + 1

SetGw(g) ==
    /\ sv_client' = g.client
    /\ sv_self' = g.self
    /\ sv_other' = g.other
    /\ sv_leaked' = g.leaked

SavedMsgs == 1 .. MaxMsgs

\* a forwarder with no client yet; every message of the origin has media and
\* none is a duplicate
SavedInit ==
    /\ sv_pc = "start"
    /\ sv_accounts \in {s \in SeqsUpTo(SavedSessions, 2) :
                            s # <<>> /\ (Len(s) = 2 => s[1] # s[2])}
    /\ sv_account \in Range(sv_accounts)
    /\ sv_prepend \in BOOLEAN
    /\ sv_ext \in BOOLEAN
    /\ sv_secondary_cfg \in BOOLEAN
    /\ sv_all_saved \in BOOLEAN
    /\ sv_msg = 0
    /\ sv_acc_pos = 0
    /\ sv_client = NoClient
    /\ sv_self = "none"
    /\ sv_other = NoClient
    /\ sv_leaked = {}
    /\ sv_primary = [id \in SavedMsgs |-> "none"]
    /\ sv_attempts = [id \in SavedMsgs |-> 0]
    /\ sv_via = [id \in SavedMsgs |-> NoClient]
    /\ sv_recorded = {}
    /\ sv_secondary = {}
    /\ sv_saved = {}
    /\ sv_seconds = 0
    /\ sv_slept = 0

\* lines 332-350: client = await self._get_client(account_identifier); when it
\* raises, the finally clause runs with client = None
SavedStart ==
    /\ sv_pc = "start"
    /\ \E ok \in BOOLEAN :
          LET g == GetClient(Gw, sv_account, ok)
          IN IF ok
             THEN /\ SetGw(Adopt(g))
                  /\ sv_pc' = "primary"
                  /\ sv_msg' = 1
             ELSE /\ SetGw(g)
                  /\ sv_pc' = "done"
                  /\ UNCHANGED sv_msg
    /\ UNCHANGED <<sv_accounts, sv_account, sv_prepend, sv_ext, sv_secondary_cfg,
                   sv_all_saved, sv_acc_pos, sv_primary, sv_attempts, sv_via,
                   sv_recorded, sv_secondary, sv_saved, sv_seconds, sv_slept>>
    /\ UNCHANGED <<schedVars, rotVars, fwdVars, discVars, pdVars, faVars, hashVars,
                   joinVars, cancelVars, idxVars, storeVars, ckptVars, msgVars,
                   invVars, prioVars, rankVars, pageVars, nameVars, cycleVars,
                   cloudVars>>

\* lines 350-443: one message: the primary forward (lines 372-401, with the
\* client taken again at 379-381), its except clauses (403-418), the record
\* (421) and the secondary forward (424-441)
SavedPrimary ==
    /\ sv_pc = "primary"
    /\ sv_msg <= MaxMsgs
    /\ \E get_ok \in BOOLEAN, sent \in {"ok", "flood", "other"}, seconds \in FloodSeconds,
          second \in {"ok", "flood", "other"}, seconds2 \in FloodSeconds :
          LET again == sv_prepend /\ ~FilenameIs(sv_client, sv_account)
              g1 == IF again THEN GetClient(Close(Gw), sv_account, get_ok) ELSE Gw
              raised == again /\ ~Reuses(Close(Gw), sv_account) /\ ~get_ok
              g == IF again /\ ~raised THEN Adopt(g1) ELSE g1
              \* a request on a disconnected client raises ConnectionError
              main == IF raised \/ ~g.client.connected THEN "other" ELSE sent
              sec == IF sv_secondary_cfg THEN second ELSE "none"
          IN /\ (raised \/ ~g.client.connected) => sent = "other"
             /\ main # "flood" => seconds = 1
             /\ (main # "ok" \/ sec # "flood") => seconds2 = 1
             /\ (main # "ok" \/ ~sv_secondary_cfg) => second = "ok"
             /\ again \/ get_ok
             /\ SetGw(g)
             /\ sv_primary' = [sv_primary EXCEPT ![sv_msg] = main]
             /\ sv_attempts' = [sv_attempts EXCEPT ![sv_msg] = IF raised THEN @ ELSE @ + 1]
             /\ sv_via' = [sv_via EXCEPT ![sv_msg] = IF raised THEN NoClient ELSE g.client]
             /\ sv_seconds' = IF main = "flood" THEN seconds ELSE 0
             /\ sv_slept' = CASE main = "flood" -> FloodSleep(seconds)
                              [] main = "ok" /\ sec = "flood" -> FloodSleep(seconds2)
                              [] OTHER -> 0
             /\ sv_recorded' = IF main = "ok" THEN sv_recorded \cup {sv_msg} ELSE sv_recorded
             /\ sv_secondary' = IF main = "ok" /\ sec = "ok"
                                THEN sv_secondary \cup {sv_msg} ELSE sv_secondary
             /\ IF main = "ok" /\ sv_all_saved
                THEN /\ sv_pc' = "saved"
                     /\ sv_acc_pos' = 1
                     /\ UNCHANGED sv_msg
                ELSE /\ sv_msg' = sv_msg + 1
                     /\ UNCHANGED <<sv_pc, sv_acc_pos>>
    /\ UNCHANGED <<sv_accounts, sv_account, sv_prepend, sv_ext, sv_secondary_cfg,
                   sv_all_saved, sv_saved>>
    /\ UNCHANGED <<schedVars, rotVars, fwdVars, discVars, pdVars, faVars, hashVars,
                   joinVars, cancelVars, idxVars, storeVars, ckptVars, msgVars,
                   invVars, prioVars, rankVars, pageVars, nameVars, cycleVars,
                   cloudVars>>

\* lines 449-479: one account of the loop over config.accounts
SavedForward ==
    /\ sv_pc = "saved"
    /\ sv_acc_pos <= Len(sv_accounts)
    /\ \E get_ok \in BOOLEAN, sent \in {"ok", "flood", "other"} :
          LET saved_messages_account_id == sv_accounts[sv_acc_pos]
              g1 == IF sv_self # "none" /\ ~FilenameIs(Obj(Gw), saved_messages_account_id)
                    THEN Close(Gw) ELSE Gw
              raised == ~Reuses(g1, saved_messages_account_id) /\ ~get_ok
              g == GetClient(g1, saved_messages_account_id, get_ok)
          IN /\ Reuses(g1, saved_messages_account_id) => get_ok
             /\ raised => sent = "other"
             /\ SetGw(g)
             /\ sv_saved' = IF ~raised /\ sent = "ok"
                            THEN sv_saved \cup {<<sv_msg, saved_messages_account_id>>}
                            ELSE sv_saved
    /\ sv_acc_pos' = sv_acc_pos + 1
    /\ UNCHANGED <<sv_pc, sv_accounts, sv_account, sv_prepend, sv_ext, sv_secondary_cfg,
                   sv_all_saved, sv_msg, sv_primary, sv_attempts, sv_via, sv_recorded,
                   sv_secondary, sv_seconds, sv_slept>>
    /\ UNCHANGED <<schedVars, rotVars, fwdVars, discVars, pdVars, faVars, hashVars,
                   joinVars, cancelVars, idxVars, storeVars, ckptVars, msgVars,
                   invVars, prioVars, rankVars, pageVars, nameVars, cycleVars,
                   cloudVars>>

\* lines 481-484: after the loop, self._client is closed unless it is a client
\* of the session the local client has; the next message is taken
SavedRestore ==
    /\ sv_pc = "saved"
    /\ sv_acc_pos > Len(sv_accounts)
    /\ SetGw(IF sv_self # "none" /\ Obj(Gw).account # sv_client.account
             THEN Close(Gw) ELSE Gw)
    /\ sv_pc' = "primary"
    /\ sv_msg' = sv_msg + 1
    /\ sv_acc_pos' = 0
    /\ UNCHANGED <<sv_accounts, sv_account, sv_prepend, sv_ext, sv_secondary_cfg,
                   sv_all_saved, sv_primary, sv_attempts, sv_via, sv_recorded,
                   sv_secondary, sv_saved, sv_seconds, sv_slept>>
    /\ UNCHANGED <<schedVars, rotVars, fwdVars, discVars, pdVars, faVars, hashVars,
                   joinVars, cancelVars, idxVars, storeVars, ckptVars, msgVars,
                   invVars, prioVars, rankVars, pageVars, nameVars, cycleVars,
                   cloudVars>>

\* lines 487 and 509-513: the iteration has ended; finally: the local client
\* is disconnected when it is connected, and self._client is set to None
SavedEnd ==
    /\ sv_pc = "primary"
    /\ sv_msg > MaxMsgs
    /\ sv_client' = [sv_client EXCEPT !.connected = FALSE]
    /\ sv_self' = "none"
    /\ sv_other' = NoClient
    /\ sv_leaked' = sv_leaked \cup (IF sv_self = "other" /\ sv_other.connected
                                    THEN {sv_other.account} ELSE {})
    /\ sv_pc' = "done"
    /\ UNCHANGED <<sv_accounts, sv_account, sv_prepend, sv_ext, sv_secondary_cfg,
                   sv_all_saved, sv_msg, sv_acc_pos, sv_primary, sv_attempts, sv_via,
                   sv_recorded, sv_secondary, sv_saved, sv_seconds, sv_slept>>
    /\ UNCHANGED <<schedVars, rotVars, fwdVars, discVars, pdVars, faVars, hashVars,
                   joinVars, cancelVars, idxVars, storeVars, ckptVars, msgVars,
                   invVars, prioVars, rankVars, pageVars, nameVars, cycleVars,
                   cloudVars>>

NextSaved ==
    \/ SavedStart
    \/ SavedPrimary
    \/ SavedForward
    \/ SavedRestore
    \/ SavedEnd

InitSaved == SavedInit /\ SchedIdle /\ RotIdle /\ FwdIdle /\ DiscIdle /\ PDIdle /\ FAIdle /\ HashIdle /\ JoinIdle /\ CancelIdle /\ IdxIdle /\ StoreIdle /\ CkptIdle /\ MsgIdle /\ InvIdle /\ PrioIdle /\ PageIdle /\ NameIdle /\ CycleIdle /\ RankIdle /\ CloudIdle

SpecSaved == InitSaved /\ [][NextSaved]_vars


\* ============================================ CloudProcessor.process_channels

\* the channel identifiers of the channels file and of the links in messages
CloudChannels == {"@a", "@b", "@c"}

\* the identifiers found in the messages of a channel, in the order found
FoundLinks ==
    {s \in SeqsUpTo(CloudChannels, 2) : \A i, j \in DOMAIN s : i # j => s[i] # s[j]}

\* how get_entity and the entity checks end (lines 409-463): an entity to
\* process, a skip (an entity that is no channel, or an error that is not a
\* flood wait), or FloodWaitError
ResolveEnds == {"entity", "skip", "flood"}

\* line 397 without the test
VisitedNever(identifier) == FALSE

\* line 397: channel_identifier in self.visited_channels
Visited(identifier) == identifier \in visited_channels

\* line 528: any(item[0] == normalized_identifier for item in channels_to_visit)
InQueue(queue, identifier) == \E i \in DOMAIN queue : queue[i][1] = identifier

\* lines 525-532 for every identifier found: it is appended with the next
\* depth when it is neither visited nor in the deque
RECURSIVE QueueLinks(_, _, _, _)
QueueLinks(queue, seen, found, next_depth) ==
    IF found = <<>> THEN queue
    ELSE LET normalized_identifier == Head(found)
             is_new == normalized_identifier \notin seen
             is_not_in_queue == ~InQueue(queue, normalized_identifier)
         IN  QueueLinks(IF is_new /\ is_not_in_queue
                        THEN Append(queue, <<normalized_identifier, next_depth>>)
                        ELSE queue,
                        seen, Tail(found), next_depth)

\* a new CloudProcessor (lines 35-41) and the channels file it is given
CloudInit ==
    /\ cl_pc = "start"
    /\ max_depth \in -1 .. MaxCrawlDepth
    /\ initial_channels \in SeqsUpTo(CloudChannels, 2) \ {<<>>}
    /\ channels_to_visit = <<>>
    /\ visited_channels = {}
    /\ cl_floods = 0
    /\ cl_taken = {}
    /\ cl_resolved = {}
    /\ cl_extracted = {}
    /\ cl_processed = [c \in CloudChannels |-> 0]
    /\ cl_flooded = {}

\* lines 386-392 and 363-379: the client is initialized (or not, and
\* process_channels returns) and the channels file is loaded, every line
\* with depth 0
CloudStart ==
    /\ cl_pc = "start"
    /\ \E client_ok \in BOOLEAN :
          IF client_ok
          THEN /\ channels_to_visit' =
                     [i \in DOMAIN initial_channels |-> <<initial_channels[i], 0>>]
               /\ cl_pc' = "loop"
          ELSE /\ cl_pc' = "done"
               /\ UNCHANGED channels_to_visit
    /\ UNCHANGED <<max_depth, initial_channels, visited_channels, cl_floods, cl_taken,
                   cl_resolved, cl_extracted, cl_processed, cl_flooded>>
    /\ UNCHANGED <<schedVars, rotVars, fwdVars, discVars, pdVars, faVars, hashVars,
                   joinVars, cancelVars, idxVars, storeVars, ckptVars, msgVars,
                   invVars, prioVars, rankVars, pageVars, nameVars, cycleVars,
                   savedVars>>

\* lines 394-640: one iteration of "while self.channels_to_visit"
CloudChannel ==
    /\ cl_pc = "loop"
    /\ channels_to_visit # <<>>
    /\ LET channel_identifier == Head(channels_to_visit)[1]
           channel_depth == Head(channels_to_visit)[2]
           rest == Tail(channels_to_visit)
       IN  /\ cl_taken' = cl_taken \cup {Head(channels_to_visit)}
           /\ IF Visited(channel_identifier)
              THEN /\ channels_to_visit' = rest
                   /\ UNCHANGED <<visited_channels, cl_floods, cl_resolved, cl_extracted,
                                  cl_processed, cl_flooded>>
              ELSE IF channel_depth > max_depth
              THEN /\ channels_to_visit' = rest
                   /\ visited_channels' = visited_channels \cup {channel_identifier}
                   /\ UNCHANGED <<cl_floods, cl_resolved, cl_extracted, cl_processed,
                                  cl_flooded>>
              ELSE \E end \in ResolveEnds, found \in FoundLinks :
                   /\ end # "entity" \/ channel_depth >= max_depth => found = <<>>
                   /\ end = "flood" => cl_floods < MaxFloods
                   /\ cl_resolved' = cl_resolved \cup {Head(channels_to_visit)}
                   /\ CASE end = "skip" ->
                             /\ channels_to_visit' = rest
                             /\ visited_channels' = visited_channels \cup {channel_identifier}
                             /\ UNCHANGED <<cl_floods, cl_extracted, cl_processed,
                                            cl_flooded>>
                        [] end = "flood" ->
                             \* lines 448-453: re-queue, remove from visited
                             /\ channels_to_visit' =
                                   Append(rest, <<channel_identifier, channel_depth>>)
                             /\ visited_channels' = visited_channels \ {channel_identifier}
                             /\ cl_floods' = cl_floods + 1
                             /\ cl_flooded' = cl_flooded \cup {channel_identifier}
                             /\ UNCHANGED <<cl_extracted, cl_processed>>
                        [] OTHER ->
                             /\ visited_channels' = visited_channels \cup {channel_identifier}
                             /\ cl_processed' =
                                   [cl_processed EXCEPT ![channel_identifier] = Min(@ + 1, 2)]
                             /\ IF channel_depth < max_depth
                                THEN /\ channels_to_visit' =
                                           QueueLinks(rest, visited_channels', found,
                                                      channel_depth + 1)
                                     /\ cl_extracted' =
                                           cl_extracted \cup {Head(channels_to_visit)}
                                ELSE /\ channels_to_visit' = rest
                                     /\ UNCHANGED cl_extracted
                             /\ UNCHANGED <<cl_floods, cl_flooded>>
    /\ UNCHANGED <<cl_pc, max_depth, initial_channels>>
    /\ UNCHANGED <<schedVars, rotVars, fwdVars, discVars, pdVars, faVars, hashVars,
                   joinVars, cancelVars, idxVars, storeVars, ckptVars, msgVars,
                   invVars, prioVars, rankVars, pageVars, nameVars, cycleVars,
                   savedVars>>

\* the deque is empty: the loop and process_channels end
CloudEnd ==
    /\ cl_pc = "loop"
    /\ channels_to_visit = <<>>
    /\ cl_pc' = "done"
    /\ UNCHANGED <<max_depth, initial_channels, channels_to_visit, visited_channels,
                   cl_floods, cl_taken, cl_resolved, cl_extracted, cl_processed,
                   cl_flooded>>
    /\ UNCHANGED <<schedVars, rotVars, fwdVars, discVars, pdVars, faVars, hashVars,
                   joinVars, cancelVars, idxVars, storeVars, ckptVars, msgVars,
                   invVars, prioVars, rankVars, pageVars, nameVars, cycleVars,
                   savedVars>>

\* lines 633-639: an exception leaves the loop with channels still queued
CloudAbort ==
    /\ cl_pc = "loop"
    /\ channels_to_visit # <<>>
    /\ cl_pc' = "done"
    /\ UNCHANGED <<max_depth, initial_channels, channels_to_visit, visited_channels,
                   cl_floods, cl_taken, cl_resolved, cl_extracted, cl_processed,
                   cl_flooded>>
    /\ UNCHANGED <<schedVars, rotVars, fwdVars, discVars, pdVars, faVars, hashVars,
                   joinVars, cancelVars, idxVars, storeVars, ckptVars, msgVars,
                   invVars, prioVars, rankVars, pageVars, nameVars, cycleVars,
                   savedVars>>

NextCloud ==
    \/ CloudStart
    \/ CloudChannel
    \/ CloudEnd
    \/ CloudAbort

InitCloud == CloudInit /\ SchedIdle /\ RotIdle /\ FwdIdle /\ DiscIdle /\ PDIdle /\ FAIdle /\ HashIdle /\ JoinIdle /\ CancelIdle /\ IdxIdle /\ StoreIdle /\ CkptIdle /\ MsgIdle /\ InvIdle /\ PrioIdle /\ PageIdle /\ NameIdle /\ CycleIdle /\ SavedIdle /\ RankIdle

SpecCloud == InitCloud /\ [][NextCloud]_vars


\* ===================================================================== claims

\* execute_parallel is between its first and its last statement
Scheduling == pc \in {"schedule", "create", "wait", "process"}

\* the tasks bound to a session: those in running_tasks and the one being created
InFlight == running_tasks \cup starting

\* C1: at every moment no session is bound to two in-flight tasks, a session
\* bound to an in-flight task is not in available_sessions (so it is handed out
\* again only after its task left running_tasks), and a task leaves
\* running_tasks only when its task_fn has ended.
C1_OneTaskPerAccount ==
    /\ \A r1, r2 \in InFlight : r1.session = r2.session => r1 = r2
    /\ \A r \in InFlight : r.session \notin Range(available_sessions)
    /\ \A r \in done : r \in running_tasks /\ task_state[r.task] # "running"
    /\ \A i \in DOMAIN available_sessions, j \in DOMAIN available_sessions :
          available_sessions[i] = available_sessions[j] => i = j

\* C1 witness: the only connected account runs the second target, after the
\* first target's task on it has completed
C1_Witness ==
    /\ Len(clients) = 1
    /\ \E r \in running_tasks : r.task = 2 /\ task_state[1] \in Outcomes

EveryTargetOnce ==
    /\ \A i \in DOMAIN targets : launches[i] = 1 /\ task_state[i] \in Outcomes
    /\ DOMAIN results = Range(targets)

\* C5 as claimed: whenever execute_parallel has returned, every target of the
\* input was launched exactly once and has its entry in the result map.
C5_Original == pc = "returned" => EveryTargetOnce

\* C5 amended: when execute_parallel has returned and at least one account is
\* connected, every target of the input was launched exactly once and has its
\* entry in the result map, whether the tasks succeeded or failed.
C5_EveryTargetOnce == (pc = "returned" /\ clients # <<>>) => EveryTargetOnce

\* C5 witness: a run returned after one task failed and a later one succeeded
C5_Witness ==
    /\ pc = "returned"
    /\ Len(targets) = 2
    /\ task_state[1] = "error"
    /\ task_state[2] = "ok"

\* C7: every stored ParallelTask row is in-flight (started_at set, completed_at
\* unset) or terminal (both set), and a completed row still carries the kind,
\* target and session written at its start.
C7_RowInFlightOrTerminal ==
    \A id \in DOMAIN parallel_tasks :
        /\ parallel_tasks[id].started_at # NULL
        /\ parallel_tasks[id].task_type # "NULL"
        /\ parallel_tasks[id].target # "NULL"
        /\ parallel_tasks[id].session_name # NULL

\* C8: with a store configured, the start row is written before the task is
\* created, and every task that is launched and has not finished has a stored
\* row with completed_at unset.
C8_UnfinishedTaskHasOpenRow ==
    db_path =>
        \A r \in InFlight :
            (r \in starting \/ task_state[r.task] = "running") =>
                /\ r.task_id \in DOMAIN parallel_tasks
                /\ parallel_tasks[r.task_id].completed_at = NULL

\* C4: get_next_account never returns an account whose cooldown deadline, set by
\* mark_account_failed, lies in the future.
C4_NoCoolingAccountReturned ==
    returned \in Accounts =>
        ~(cooldown_deadline[returned] # NULL /\ cooldown_deadline[returned] > now)

\* C9: a get_next_account call that finds no usable account ends, returns no
\* account and leaves every usage count as it was.
C9_NoAccountAvailable ==
    ~had_available => (returned \notin Accounts /\ returned # Hang)

\* C3: with deduplication enabled, with or without a database, a message whose
\* content hash equals that of a message already forwarded to the primary
\* destination is skipped, so the primary destination receives at most one
\* message per content hash.
C3_AtMostOncePerHash ==
    enable_deduplication =>
        \A i, j \in DOMAIN origin :
            /\ primary_sent[i] <= 1
            /\ (i # j /\ HashOf(i) = HashOf(j)) => primary_sent[i] + primary_sent[j] <= 1

\* C6: a row of forwarded_messages or an entry of the memory set for hash h
\* exists only if a message with hash h was sent successfully to the primary
\* destination; a failed send and a message without media leave neither.
C6_RecordedOnlyAfterPrimarySend ==
    \A h \in message_hashes \cup DOMAIN forwarded_messages :
        \E i \in DOMAIN origin : primary_sent[i] > 0 /\ HashOf(i) = h

\* the first message's send has just failed in the second pass, the other
\* message was recorded in the first pass, and the first message has no record
C6_Witness ==
    /\ fwd_pc = "iterating"
    /\ passes = 1
    /\ Len(origin) = 2
    /\ msg_pos = 2
    /\ last_outcome \in {"flood", "permission", "rpc", "other"}
    /\ HashOf(2) \in message_hashes
    /\ HashOf(2) \in DOMAIN forwarded_messages
    /\ HashOf(1) \notin message_hashes \cup DOMAIN forwarded_messages

\* C10: discover_from_seed(seed, depth = d) iterates only the entities at
\* distance 0..d-1 from the seed, so what it persists and returns is exactly
\* the set of links at distance 1..d from the seed.
C10_LinksWithinDepth ==
    (disc_pc = "returned" /\ ~extract_failed) =>
        /\ all_discovered = WithinDistance(depth)
        /\ discovered_groups = WithinDistance(depth)

\* C11: within one discover_from_seed call no entity has its messages
\* iterated more than once; the seed is not visited again when a discovered
\* entity links back to it.
C11_NoEntityIteratedTwice ==
    \A e \in Entities : iterated[e] <= 1

\* C12: in parallel_discovery every join task and every extraction task of
\* depth layer k has completed before any task of layer k+1 is started (and
\* the joins of a layer before its extractions): the tasks in flight all
\* belong to the layer and the call being processed.
C12_LayersInOrder ==
    \A r \in pd_running : r.layer = pd_layer /\ r.kind = pd_phase

\* two tasks of the second layer are in flight
C12_Witness ==
    /\ pd_layer = 1
    /\ Cardinality(pd_running) = 2
    /\ \A r \in pd_running : r.layer = 1

\* C13: forward_all_accessible_channels calls forward_messages exactly once
\* for every (channel, account) pair read, one pair after the other; a call
\* that raises neither stops the pass nor reaches the caller, and no account
\* is marked banned or unusable.
C13_EveryChannelOnce ==
    /\ fa_pc # "raised"
    /\ \A i \in DOMAIN unique_channels_with_accounts :
          fa_calls[i] = IF i < fa_pos \/ (i = fa_pos /\ fa_pc = "forwarding") THEN 1 ELSE 0
    /\ fa_pc = "done" => fa_pos = Len(unique_channels_with_accounts) + 1
                         \/ unique_channels_with_accounts = <<>>
    /\ \A a \in Accounts : usage_counts[a] < INF /\ ~account_rotation[a].is_banned

\* the pass has ended after the first channel raised ChannelPrivateError and
\* the second was forwarded
C13_Witness ==
    /\ fa_pc = "done"
    /\ Len(unique_channels_with_accounts) = 2
    /\ fa_report[1] = "ChannelPrivateError"
    /\ fa_report[2] = "ok"
    /\ fa_calls[2] = 1

\* C14: an authentication error raised by a send inside forward_messages
\* aborts the whole operation: once it has been raised the iteration over the
\* origin does not go on, so no later message is sent.
C14_AuthErrorAborts ==
    last_outcome = "auth" => fwd_pc # "iterating"

\* the multiset of the parts of a list
PartsBag(parts) ==
    [p \in Range(parts) |-> Cardinality({i \in DOMAIN parts : parts[i] = p})]

\* C15: two messages that yield the same parts get the same hash, whatever
\* the order in which the parts were collected and whatever their ids and
\* dates; and the list of parts hashed is never empty.
C15_HashOfPartsMultiset ==
    hash_pc = "done" =>
        /\ hash_parts[1] # <<>> /\ hash_parts[2] # <<>>
        /\ PartsBag(hash_parts[1]) = PartsBag(hash_parts[2]) =>
               hash_values[1] = hash_values[2]

\* two messages that differ in id and date, the three parts of the second
\* collected in the reverse order, have been hashed
C15_Witness ==
    /\ hash_pc = "done"
    /\ hash_msgs[1].id # hash_msgs[2].id
    /\ hash_msgs[1].date # hash_msgs[2].date
    /\ Len(hash_parts[1]) = 3
    /\ hash_parts[2] = <<hash_parts[1][3], hash_parts[1][2], hash_parts[1][1]>>
    /\ hash_values[1] = hash_values[2]

\* C16: a join_group call retries a flood-waited join once: it makes at most
\* two join requests for flood-wait reasons, whatever the accounts answer.
C16_OneFloodRetry ==
    flood_retries <= 1

\* C17: an account that answered with an account-fatal error is marked banned
\* and is not returned by get_next_account again.
C17_FatalAccountBanned ==
    \A a \in fatal_reported :
        /\ account_rotation[a].is_banned
        /\ returned # a

\* the answers that concern the target, not the account
TargetSpecific == {"admin_required", "private", "user_banned", "expired"}

\* C18: a join request that fails for a target-specific reason leaves the
\* account as it was: no cooldown, no ban, the same usage count.
C18_TargetFailureKeepsAccount ==
    [][(join_pc = "request" /\ join_attempts' = join_attempts + 1
          /\ join_last'.answer \in TargetSpecific)
       => /\ usage_counts' = usage_counts
          /\ cooldown_deadline' = cooldown_deadline
          /\ account_rotation' = account_rotation]_vars

\* C19: once execute_parallel has returned, the result map holds the task's
\* error for a target whose task failed (a target listed once).
C19_FailedEntryCarriesError ==
    pc = "returned" =>
        \A i \in DOMAIN targets :
            (/\ task_state[i] \in Outcomes
             /\ ~Success(task_state[i])
             /\ \A j \in DOMAIN targets : targets[j] = targets[i] => j = i)
            => results[targets[i]] = ErrorOf(task_state[i])

\* C20: an execute_parallel that was asked to cancel ends only when every task
\* that was in flight at the request has finished.
C20_CancelWaitsForInFlight ==
    (cancel_requested /\ pc = "cancelled") =>
        \A r \in running_tasks : task_state[r.task] # "running"

\* C21: with deduplication on, the first message of the origin with a given
\* content hash -- a text-only message included -- is sent to the primary
\* destination when the gateway answers its send without an error.
C21_FirstOfHashSent ==
    (/\ fwd_pc = "iterating"
     /\ enable_deduplication
     /\ passes = 0
     /\ msg_pos > 1
     /\ last_outcome \in {"ok", "no media", "duplicate"})
    => LET i == msg_pos - 1
       IN (\A j \in 1 .. (i - 1) : HashOf(j) # HashOf(i)) => primary_sent[i] = 1

\* C22 as claimed: no message is sent to the primary destination after a
\* message iterated later has been sent to it.
C22_Original ==
    [][\A i \in DOMAIN origin :
          primary_sent'[i] # primary_sent[i]
          => \A j \in DOMAIN origin : j > i => primary_sent[j] = 0]_vars

\* C22 amended: within one forward_messages call the messages sent to the
\* primary destination are sent in iteration order: each one sent comes later
\* in the iteration than the one sent before it.
C22_SentInIterationOrder ==
    [][(fwd_pc = "iterating" /\ fwd_pc' = "iterating" /\ last_sent' # last_sent)
       => last_sent' > last_sent]_vars

\* C22 witness: one call has sent the first message and then the second
C22_Witness ==
    /\ fwd_pc = "iterating"
    /\ passes = 0
    /\ Len(origin) = 2
    /\ msg_pos = 3
    /\ last_sent = 2
    /\ last_outcome = "ok"
    /\ primary_sent[1] = 1
    /\ primary_sent[2] = 1

\* C23: the access table holds at most one row per (account, channel) pair,
\* and the row of a pair carries the name and the time of the most recent
\* index of that pair, whatever runs and failures came before.
C23_OneRowPerPair ==
    /\ \A r1, r2 \in account_channel_access :
          (r1.account_phone_number = r2.account_phone_number
           /\ r1.channel_id = r2.channel_id) => r1 = r2
    /\ \A pair \in DOMAIN idx_latest :
          \E r \in account_channel_access :
             /\ <<r.account_phone_number, r.channel_id>> = pair
             /\ r.channel_name = idx_latest[pair].channel_name
             /\ r.last_seen = idx_latest[pair].last_seen

\* C23 witness: a second run has re-indexed a pair under a new name, while
\* another pair of the first run was not reached again
C23_Witness ==
    /\ idx_runs = 2
    /\ idx_pc = "idle"
    /\ \E r \in account_channel_access :
          r.account_phone_number = "+1" /\ r.channel_id = "c1"
          /\ r.channel_name = "new" /\ r.last_seen = 2
    /\ \E r \in account_channel_access :
          r.account_phone_number = "s2" /\ r.channel_id = "c2" /\ r.last_seen = 1

\* C24: a mutating store operation retries only after a busy/locked error,
\* makes at most three attempts, waits 1 s, 2 s, ... between them, and returns
\* normally only when its last attempt succeeded: it raises when the attempts
\* are used up and when an error is not a lock error.
C24_RetryOnlyOnLock ==
    /\ Len(st_tries) <= 3
    /\ \A i \in DOMAIN st_tries :
          i < Len(st_tries) => st_tries[i] \in {"busy", "locked"}
    /\ \A i \in DOMAIN st_waits : i < Len(st_tries) => st_waits[i] = 2 ^ (i - 1)
    /\ st_pc = "returned" => st_tries[Len(st_tries)] = "ok"
    /\ st_pc = "raised" => st_tries[Len(st_tries)] # "ok"

\* the row of a context that was saved last
LastSaved(context) ==
    CHOOSE i \in RowsOf(checkpoints, context) :
        \A j \in RowsOf(checkpoints, context) : j <= i

\* C25: get_latest_checkpoint(ctx) returns the last_message_id of the
\* checkpoint of ctx saved most recently, and none when ctx has no checkpoint,
\* also when checkpoints of ctx carry the same timestamp.
C25_LatestIsLastSaved ==
    latest_context \in Contexts =>
        IF RowsOf(checkpoints, latest_context) = {}
        THEN latest_result = None
        ELSE latest_result = checkpoints[LastSaved(latest_context)].last_message_id

\* C26: a Message inserted and read back through get_messages for its year
\* and month is there with the same id, content and reply_to, and its date
\* denotes the same instant, whatever the timezone of the inserted date and
\* the display timezone.
C26_RoundTrip ==
    msg_pc = "read" =>
        \E m \in msg_out :
            /\ m.id = msg_in.id
            /\ m.content = msg_in.content
            /\ m.reply_to = msg_in.reply_to
            /\ Instant(m.date) = Instant(msg_in.date)

\* C27: once a key is in processed_invites it stays there, also over a restart
\* that loads invitation_state.json; its pair is not put into invite_queue
\* again and no JoinChannelRequest is sent for it again.
C27_ProcessedIsTerminal ==
    [][\A key \in processed_invites :
          /\ key \in processed_invites'
          /\ key \notin join_requested'
          /\ key \in QueuedKeys(invite_queue') => key \in QueuedKeys(invite_queue)]_vars

\* C28: get_priority_targets(top_n, min_priority) returns the top_n groups of
\* highest priority among those not archived and of priority >= min_priority
\* (all of them when they are fewer), in non-increasing order and with no
\* omitted eligible group above a returned one; and it returns no link that
\* an earlier archive_priority_targets archived with success.
C28_TopPriorityTargets ==
    prio_pc = "returned" =>
        LET eligible == {g \in GroupLinks : /\ status[g] # "archived"
                                             /\ priority[g] >= prio_args.min_priority}
            n == Len(prio_result)
        IN  /\ n = IF Cardinality(eligible) < prio_args.top_n
                   THEN Cardinality(eligible) ELSE prio_args.top_n
            /\ Range(prio_result) \subseteq eligible
            /\ \A i, j \in 1 .. n : i < j => /\ prio_result[i] # prio_result[j]
                                             /\ priority[prio_result[i]]
                                                  >= priority[prio_result[j]]
            /\ \A g \in eligible \ Range(prio_result), i \in 1 .. n :
                  priority[g] <= priority[prio_result[i]]
            /\ Range(prio_result) \cap archived_ok = {}

\* C29: after _update_group_priorities has recomputed them, every priority of
\* discovered_groups lies between 0 and 1.
C29_PriorityInUnitInterval ==
    rank_pc = "updated" =>
        \A g \in rank_rows : 0 <= rank_priority[g] /\ rank_priority[g] <= Scale

\* C30: every call of discover_from_seed returns, whatever the depth and the
\* link graph are and whether or not the join of the seed and the
\* extractions fail (a call that has sent MaxAttempts join requests is not
\* followed further).
C30_DiscoverFromSeedTerminates ==
    <>(disc_pc = "returned" \/ join_attempts >= MaxAttempts)

\* C31: PAGE(rank, size) is the ceiling of rank / size for every rank >= 1 and
\* size >= 1, and PAGE(0, size) is 1.
C31_PageIsCeiling ==
    page_pc = "returned" =>
        page_result = IF page_n = 0 THEN 1 ELSE ExactCeil(page_n, page_multiple)

\* the eligible accounts that tie with account a on the criterion of the mode
TiedWith(a) ==
    {b \in AvailableIdx(usage_counts) :
        IF rotation_mode = "weighted"
        THEN usage_counts[b] = usage_counts[a]
        ELSE /\ ~ScoreLess(usage_counts, last_used, a, b)
             /\ ~ScoreLess(usage_counts, last_used, b, a)}

\* C32: when get_next_account selects an account in mode weighted or smart,
\* no eligible account that ties with it on the criterion has a session name
\* that is lexicographically smaller.
C32_TieToSmallestName ==
    [][(/\ rotation_mode \in {"weighted", "smart"}
        /\ returned' \in Accounts
        /\ had_available')
       => \A b \in TiedWith(returned') :
             ~LexLess(session_name[b], session_name[returned'])]_vars

\* the account that follows a in the cycle of the accounts of set S
RECURSIVE NextIn(_, _)
NextIn(S, a) ==
    LET b == (a + 1) % MaxAccounts IN IF b \in S THEN b ELSE NextIn(S, b)

\* C33: in mode sequential, when the same k >= 1 accounts were eligible (not
\* banned, not in cooldown) at each of k consecutive get_next_account calls
\* with no failure reported in between, the calls returned each of them once,
\* in the cyclic order of the accounts list; and a call adds one to the usage
\* count of the account it returns and changes no other count.
C33_SequentialCycle ==
    /\ [](\A E \in SUBSET Accounts :
            (/\ rotation_mode = "sequential"
             /\ E # {}
             /\ Len(window) >= Cardinality(E)
             /\ \A i \in DOMAIN LastN(window, Cardinality(E)) :
                   LastN(window, Cardinality(E))[i].eligible = E)
            => LET w == LastN(window, Cardinality(E))
               IN  /\ {w[i].account : i \in DOMAIN w} = E
                   /\ \A i \in 1 .. (Len(w) - 1) :
                         w[i + 1].account = NextIn(E, w[i].account))
    /\ [][(rotation_mode = "sequential" /\ returned' \in Accounts)
          => usage_counts' = [usage_counts EXCEPT ![returned'] = @ + 1]]_vars

\* the cooldown mark_account_failed was given for the account has passed
CooldownPassed(a) ==
    a \in reported /\ cooldown_deadline[a] # NULL /\ cooldown_deadline[a] <= now

\* C34: an account that mark_account_failed put in cooldown is usable again
\* once the cooldown has passed (its usage count is finite, so that
\* get_next_account can select it), and in mode sequential a full cycle of
\* get_next_account calls made after the cooldown passed returns it.
C34_CooldownIsTemporary ==
    \A a \in Accounts :
        /\ CooldownPassed(a) => a \in AvailableIdx(usage_counts)
        /\ (/\ CooldownPassed(a)
            /\ rotation_mode = "sequential"
            /\ Len(window) = MaxAccounts
            /\ \A i \in DOMAIN window : a \in window[i].eligible)
           => \E i \in DOMAIN window : window[i].account = a

\* the join targets of the layer in progress: the seeds of that layer
LayerSeeds ==
    Range(pd_pending) \cup {r.target : r \in {q \in pd_running : q.kind = "join"}}

\* C35: the seeds of a layer after the first are links discovered from the
\* seeds before them, none of them is a link that was a seed of an earlier
\* layer, and there are at most DiscoveredLimit of them for each earlier seed.
C35_SeedsAreNew ==
    (pd_phase = "join" /\ pd_layer >= 1) =>
        /\ \A s \in LayerSeeds :
              /\ \E seed \in DOMAIN pd_all_discovered : s \in pd_all_discovered[seed].val
              /\ s \notin DOMAIN pd_all_discovered
        /\ \A r \in pd_running :
              r.n <= DiscoveredLimit * Cardinality(DOMAIN pd_all_discovered)

\* C36: a message whose primary forward raised FloodWaitError got one primary
\* forward only, was not forwarded to the secondary destination or to any
\* Saved Messages and was not recorded; the loop went on to the next message,
\* after a sleep of the seconds asked for plus one.
C36_FloodSkipsMessage ==
    \A id \in DOMAIN sv_primary :
        sv_primary[id] = "flood" =>
            /\ sv_attempts[id] = 1
            /\ id \notin sv_recorded
            /\ id \notin sv_secondary
            /\ \A session \in SavedSessions : <<id, session>> \notin sv_saved
            /\ sv_msg > id
            /\ sv_pc # "saved" \/ sv_msg # id
            /\ (sv_msg = id + 1 /\ sv_pc = "primary") => sv_slept = sv_seconds + 1

\* the first message got a flood-wait of 3 seconds, with a secondary
\* destination and the Saved Messages configured; the loop is at the second
C36_Witness ==
    /\ sv_pc = "primary"
    /\ sv_msg = 2
    /\ sv_primary[1] = "flood"
    /\ sv_seconds = 3
    /\ sv_secondary_cfg
    /\ sv_all_saved

\* C38: a primary forward issued for the message after one that was forwarded
\* to the Saved Messages of the configured accounts goes through a connected
\* client of the account that forwards, and when forward_messages has ended
\* no client it created is connected.
C38_OriginalClientRestored ==
    /\ \A id \in DOMAIN sv_via :
          (/\ id > 1
           /\ sv_all_saved
           /\ sv_primary[id - 1] = "ok"
           /\ sv_attempts[id] > 0)
          => sv_via[id].connected /\ sv_via[id].account = sv_account
    /\ sv_pc = "done" =>
          /\ ~sv_client.connected
          /\ sv_self = "none"
          /\ sv_leaked = {}

\* C37: when an invitation ends with a flood wait of s seconds, the item stays
\* in invite_queue and its key out of processed_invites, min_seconds is at
\* least s + 60 afterwards, and min_seconds <= max_seconds holds afterwards
\* if it held before; within a run min_seconds never decreases.
C37_FloodRaisesDelayFloor ==
    [][/\ invite_flood' # 0 =>
            LET item == Head(items_to_process)
            IN  /\ item \in Range(invite_queue')
                /\ InviteKey(item[1], item[2]) \notin processed_invites'
                /\ invite_delays'.min_seconds >= invite_flood' + 60
                /\ invite_delays.min_seconds <= invite_delays.max_seconds
                      => invite_delays'.min_seconds <= invite_delays'.max_seconds
       /\ inv_runs' = inv_runs
            => invite_delays'.min_seconds >= invite_delays.min_seconds]_vars

\* a flood wait of 500 seconds has raised min_seconds from 120 to 560 and
\* max_seconds from 600 to 620; the item is in the queue
C37_Witness ==
    /\ invite_flood = 500
    /\ invite_delays = [min_seconds |-> 560, max_seconds |-> 620]
    /\ invite_queue # <<>>
    /\ processed_invites = {}

\* how many times the session is in available_sessions or bound to a task
\* of running_tasks (or to the one being created)
Holders(session) ==
    Cardinality({i \in DOMAIN available_sessions : available_sessions[i] = session})
    + Cardinality({r \in InFlight : r.session = session})

\* C39: a call of execute_parallel with a connected account and a concurrency
\* limit of one or more returns, with an entry for every target in results,
\* when every task_fn call ends, even when they all fail; until then every
\* connected session is at any moment either once in available_sessions or
\* bound to one task in flight.
C39_ExecuteParallelReturns ==
    /\ [](Scheduling => \A session \in Range(clients) : Holders(session) = 1)
    /\ (clients # <<>> /\ max_concurrent_arg # 0)
          => <>(pc = "returned" /\ DOMAIN results = Range(targets))

\* the call has returned after every task failed, so that every connected
\* account was reported failed to the rotator
C39_Witness ==
    /\ pc = "returned"
    /\ Len(targets) = MaxTargets
    /\ Len(clients) = MaxAccounts
    /\ \A i \in DOMAIN targets : task_state[i] \in {"error", "flood"}
    /\ \A session \in Range(clients) : usage_counts[session] = INF

\* C40 as stated: every channel taken from the deque has a depth of at most
\* max_depth, links are extracted only from channels of a depth below
\* max_depth, and no identifier is resolved and processed twice in a run.
C40_Original ==
    /\ \A t \in cl_taken : t[2] <= max_depth
    /\ \A t \in cl_extracted : t[2] < max_depth
    /\ \A c \in DOMAIN cl_processed : cl_processed[c] <= 1

\* C40: every channel get_entity is called for has a depth of at most
\* max_depth (one taken from the deque with a greater depth is skipped
\* before), links are extracted only from channels of a depth below
\* max_depth, and no identifier is resolved and processed twice in a run.
C40_CrawlWithinDepth ==
    /\ \A t \in cl_resolved : t[2] <= max_depth
    /\ \A t \in cl_taken \ cl_resolved :
          t[2] > max_depth \/ t[1] \in visited_channels
    /\ \A t \in cl_extracted : t[2] < max_depth
    /\ \A c \in DOMAIN cl_processed : cl_processed[c] <= 1

\* the crawl has ended; a channel that was put back after a flood wait was
\* processed once, links were followed down to max_depth, and a channel of
\* the file was listed twice
C40_Witness ==
    /\ cl_pc = "done"
    /\ max_depth = 1
    /\ \E c \in cl_flooded : cl_processed[c] = 1
    /\ \E t \in cl_resolved : t[2] = max_depth /\ cl_processed[t[1]] = 1
    /\ cl_extracted # {}
    /\ Len(initial_channels) = 2 /\ initial_channels[1] = initial_channels[2]

====
